---------------------------- MODULE Spec2Model ----------------------------
(***************************************************************************)
(* A model of the FraudDocAI fraud-risk scoring code:                      *)
(*   ai-service/emotion_fraud_detector.py   EmotionFraudDetector           *)
(*   ai-service/document_qa_service.py      DocumentQuestionAnsweringService*)
(*   ai-service/app.py, app_updated.py, simple_app.py                      *)
(*                                           analyze_text_for_fraud and the *)
(*                                           /analyze-document-fraud handler*)
(*                                                                         *)
(* Texts are TLA+ strings, handled character by character.  Scores are     *)
(* fixed-point integers in units of 1/ONE (ONE = 100000); the classifier's *)
(* scores have four decimals, so every product with a weight and every     *)
(* three-decimal rounding is exact; Python's binary floating-point         *)
(* representation error is not modelled.  The external model-inference     *)
(* capabilities (the emotion classifier, the QA pipeline) are inputs of    *)
(* the actions: each call either raises or returns a value drawn from a    *)
(* small set.                                                              *)
(***************************************************************************)
EXTENDS Integers, Sequences, FiniteSets, TLC

VARIABLES
    program,      \* the module that runs as this process ("None" before it starts)
    handles,      \* the six global model handles of app.py / app_updated.py
    qa_loaded,    \* DocumentQuestionAnsweringService.model_loaded
    emo_loaded,   \* EmotionFraudDetector.model_loaded
    pc,           \* "boot" (before startup), "idle", "done" (a call returned),
                  \* "repeated" (the same call returned a second time)
    call,         \* the operation called last and its inputs
    ret,          \* what that operation returned, its clock-derived fields apart
    stamps,       \* the clock-derived fields of what it returned
    hash_seed,    \* the string hash seed of the process, where set order shows
    frames        \* the calls in flight when analyses overlap: per task, its
                  \* position, its arguments and its local variables

vars == <<program, handles, qa_loaded, emo_loaded, pc, call, ret, stamps, hash_seed,
          frames>>

----------------------------------------------------------------------------
(* Bounds of the model.                                                    *)

\* a text is the concatenation of at most MaxFrags fragments
MaxFrags == 2
\* a classifier response scores at most MaxHot labels above zero (or all of
\* them 1.0)
MaxHot == 1
\* a document handed to _extract_relevant_context has at most MaxSentences
\* '.'-separated pieces drawn from SentencePool
MaxSentences == 3
\* max_length ranges over 0 .. MaxMaxLength in direct calls
MaxMaxLength == 8
\* in one run of the question battery the QA pipeline gives one response to
\* all questions but at most MaxDeviations of them
MaxDeviations == 1
\* an image has at most MaxBlocks + 1 blocks of text
MaxBlocks == 20
\* at most MaxTasks analyses are in flight at once
MaxTasks == 2

----------------------------------------------------------------------------
(* Fixed-point arithmetic.                                                 *)

ONE == 100 * 1000

Min(a, b) == IF a <= b THEN a ELSE b

\* x * 0.w for a weight given in tenths or hundredths
Times(x, num, den) == (x * num) \div den

\* round(x, 3): to a multiple of a thousandth, ties to the even thousandth
Round3(x) ==
    LET step == ONE \div 1000
        q == x \div step
        r == x % step
    IN  IF 2 * r < step THEN q * step
        ELSE IF 2 * r > step THEN (q + 1) * step
        ELSE IF q % 2 = 0 THEN q * step ELSE (q + 1) * step

----------------------------------------------------------------------------
(* Python string operations.                                               *)

Char(s, i) == SubSeq(s, i, i)

UpperCase == "ABCDEFGHIJKLMNOPQRSTUVWXYZ"
LowerCase == "abcdefghijklmnopqrstuvwxyz"

\* printable ASCII in code-point order (without the backquote, which no text
\* of the model holds): Python compares strings by code point
Ascii == " !\"#$%&'()*+,-./0123456789:;<=>?@ABCDEFGHIJKLMNOPQRSTUVWXYZ[\\]^_abcdefghijklmnopqrstuvwxyz{|}~"

\* ord(c), up to the offset of the first printable character
OrdTable == [c \in {Char(Ascii, i) : i \in 1..Len(Ascii)} |->
                CHOOSE i \in 1..Len(Ascii) : Char(Ascii, i) = c]

Ord(c) == OrdTable[c]

LowerTable == [c \in {Char(UpperCase, i) : i \in 1..26} |->
                  Char(LowerCase, CHOOSE i \in 1..26 : Char(UpperCase, i) = c)]

LowerChar(c) == IF c \in DOMAIN LowerTable THEN LowerTable[c] ELSE c

\* str.lower(), half by half
RECURSIVE Lower(_)
Lower(s) ==
    IF Len(s) = 0 THEN ""
    ELSE IF Len(s) = 1 THEN LowerChar(s)
    ELSE Lower(SubSeq(s, 1, Len(s) \div 2))
             \o Lower(SubSeq(s, Len(s) \div 2 + 1, Len(s)))

\* needle in hay
Contains(hay, needle) ==
    \E i \in 1..(Len(hay) - Len(needle) + 1) :
        SubSeq(hay, i, i + Len(needle) - 1) = needle

\* s[:n]
Prefix(s, n) == SubSeq(s, 1, Min(n, Len(s)))

IsSpace(c) == c \in {" ", "\t", "\n"}

\* str.strip()
RECURSIVE LStrip(_)
LStrip(s) == IF s # "" /\ IsSpace(Head(s)) THEN LStrip(Tail(s)) ELSE s

RECURSIVE RStrip(_)
RStrip(s) ==
    IF s # "" /\ IsSpace(Char(s, Len(s)))
    THEN RStrip(SubSeq(s, 1, Len(s) - 1))
    ELSE s

Strip(s) == RStrip(LStrip(s))

\* str.split(sep) for a one-character sep: the pieces between the
\* occurrences of sep, always at least one piece
Split(s, sep) ==
    LET at == {i \in 1..Len(s) : Char(s, i) = sep}
        \* the position of the k-th separator; 0 and Len(s) + 1 bracket them
        Pos(k) == IF k = 0 THEN 0
                  ELSE IF k > Cardinality(at) THEN Len(s) + 1
                  ELSE CHOOSE p \in at : Cardinality({q \in at : q < p}) = k - 1
    IN  [k \in 1..(Cardinality(at) + 1) |-> SubSeq(s, Pos(k - 1) + 1, Pos(k) - 1)]

\* the length of the word that starts at position i
RECURSIVE WordLen(_, _)
WordLen(s, i) ==
    IF i <= Len(s) /\ ~IsSpace(Char(s, i)) THEN 1 + WordLen(s, i + 1) ELSE 0

\* set(str.split()): the set of whitespace-separated words
WordSet(s) ==
    {SubSeq(s, i, i + WordLen(s, i) - 1) :
        i \in {j \in 1..Len(s) : /\ ~IsSpace(Char(s, j))
                                 /\ (j = 1 \/ IsSpace(Char(s, j - 1)))}}

\* a < b for Python strings
RECURSIVE StrLess(_, _)
StrLess(a, b) ==
    IF b = "" THEN FALSE
    ELSE IF a = "" THEN TRUE
    ELSE IF Head(a) = Head(b) THEN StrLess(Tail(a), Tail(b))
    ELSE Ord(Head(a)) < Ord(Head(b))

\* the strings of S in ascending order
RECURSIVE Ascending(_)
Ascending(S) ==
    IF S = {} THEN <<>>
    ELSE LET least == CHOOSE a \in S : \A b \in S \ {a} : StrLess(a, b)
         IN  <<least>> \o Ascending(S \ {least})

\* seq[::-1]
Reversed(seq) == [i \in 1..Len(seq) |-> seq[Len(seq) + 1 - i]]

\* the sum of a sequence of integers
RECURSIVE SumSeq(_)
SumSeq(s) == IF s = <<>> THEN 0 ELSE Head(s) + SumSeq(Tail(s))

----------------------------------------------------------------------------
(* The texts handed to the analysis entry points.                          *)

Fragments ==
    <<"URGENT: wire transfer $50,000 immediately, confidential!",
      "Invoice #LEG-1234, Net 30 terms, thank you for your business.",
      " urgent immediate asap rush emergency critical",
      " bitcoin cryptocurrency offshore tax haven shell company forged fake duplicate altered tampered",
      " $1 $2 $3.50 $4,000 $5 $6",
      " a@b.co c@d.org e.x@f-g.net g@h.io">>

\* the fragments whose index is in S, concatenated in index order
RECURSIVE ConcatFrom(_, _)
ConcatFrom(S, i) ==
    IF i > Len(Fragments) THEN ""
    ELSE (IF i \in S THEN Fragments[i] ELSE "") \o ConcatFrom(S, i + 1)

RECURSIVE Repeat(_, _)
Repeat(s, n) == IF n = 0 THEN "" ELSE s \o Repeat(s, n - 1)

\* the number of characters of a text the classifier is meant to receive
ClassifierMaxChars == 512

\* a text of more than ClassifierMaxChars characters whose only keyword lies
\* past them
LongText == Repeat("pay now! ", 57) \o "urgent"

\* texts at the thresholds of the density checks: five amounts, three
\* addresses
BoundaryTexts == {" $1 $2 $3.50 $4,000 $5", " a@b.co c@d.org e.x@f-g.net"}

Texts ==
    {ConcatFrom(S, 1) : S \in {X \in SUBSET (1..Len(Fragments)) :
                                  Cardinality(X) <= MaxFrags}}
    \cup BoundaryTexts \cup {LongText}

\* the texts the libraries extract from an upload
ExtractedTexts == {Fragments[1], Fragments[2], Fragments[3]}

\* every text an analysis entry point receives in the model: the texts of
\* the direct calls and the texts process_document extracts.  What the
\* text-only steps of an analysis make of these texts is tabulated below
\* (PatternAnalyses, TextSignals, CategoryAnalyses), so that it is computed
\* once per text and not once per call.
AnalysedTexts ==
    Texts \cup {Strip(t) : t \in ExtractedTexts} \cup {"OCR processing failed"}

----------------------------------------------------------------------------
(* DocumentQuestionAnsweringService._extract_relevant_context              *)

\* (overlap, sentence) tuples; idx is the sentence's place in the document,
\* carried along for the properties only (the code's tuples do not hold it)
ScoredSentences(question, context) ==
    LET question_words == WordSet(Lower(question))
        context_sentences == Split(context, ".")
    IN  [i \in 1..Len(context_sentences) |->
            [overlap  |-> Cardinality(question_words \cap
                                      WordSet(Lower(context_sentences[i]))),
             sentence |-> context_sentences[i],
             idx      |-> i]]

\* Python's tuple order on (overlap, sentence): a > b
TupleGreater(a, b) ==
    \/ a.overlap > b.overlap
    \/ a.overlap = b.overlap /\ StrLess(b.sentence, a.sentence)

\* list.sort(reverse=True): descending, equal elements keep their order
RECURSIVE InsertDesc(_, _)
InsertDesc(sorted, x) ==
    IF sorted = <<>> THEN <<x>>
    ELSE IF TupleGreater(x, Head(sorted)) THEN <<x>> \o sorted
    ELSE <<Head(sorted)>> \o InsertDesc(Tail(sorted), x)

RECURSIVE SortDescFrom(_, _, _)
SortDescFrom(seq, i, acc) ==
    IF i > Len(seq) THEN acc
    ELSE SortDescFrom(seq, i + 1, InsertDesc(acc, seq[i]))

SortReverse(seq) == SortDescFrom(seq, 1, <<>>)

\* AppendWhileFits with the length test on the accumulation alone
RECURSIVE AppendWhileRoom(_, _, _, _)
AppendWhileRoom(scored, i, relevant_context, max_length) ==
    IF i > Len(scored) THEN relevant_context
    ELSE IF Len(relevant_context) <= max_length
         THEN AppendWhileRoom(scored, i + 1,
                              relevant_context \o scored[i].sentence \o ". ",
                              max_length)
         ELSE relevant_context

\* the loop of lines 90-95: append while the next sentence still fits
RECURSIVE AppendWhileFits(_, _, _, _)
AppendWhileFits(scored, i, relevant_context, max_length) ==
    IF i > Len(scored) THEN relevant_context
    ELSE IF Len(relevant_context \o scored[i].sentence) <= max_length
         THEN AppendWhileFits(scored, i + 1,
                              relevant_context \o scored[i].sentence \o ". ",
                              max_length)
         ELSE relevant_context

\* StrOr without the fallback
StrOrFirst(a, b) == a

\* Python's "a or b" on strings: a unless it is empty
StrOr(a, b) == IF a # "" THEN a ELSE b

\* line 97: return relevant_context.strip() or context[:max_length]
extract_relevant_context(question, context, max_length) ==
    StrOr(Strip(AppendWhileFits(SortReverse(ScoredSentences(question, context)),
                                1, "", max_length)),
          Prefix(context, max_length))

----------------------------------------------------------------------------
(* Regular expressions of the detectors.                                   *)

Digits == {"0", "1", "2", "3", "4", "5", "6", "7", "8", "9"}

Letters == {Char(UpperCase, i) : i \in 1..26} \cup {Char(LowerCase, i) : i \in 1..26}

\* the length of the longest run of characters of class C in s from position i
RECURSIVE RunLen(_, _, _)
RunLen(s, i, C) ==
    IF i <= Len(s) /\ Char(s, i) \in C THEN 1 + RunLen(s, i + 1, C) ELSE 0

\* r'\$[\d,]+\.?\d*' tried at position i: the position after the match, or 0.
\* Every quantifier is greedy and nothing follows that could make it give
\* characters back.
AmountMatchEnd(s, i) ==
    IF i <= Len(s) /\ Char(s, i) = "$" /\ RunLen(s, i + 1, Digits \cup {","}) > 0
    THEN LET a == i + 1 + RunLen(s, i + 1, Digits \cup {","})
             b == IF a <= Len(s) /\ Char(s, a) = "." THEN a + 1 ELSE a
         IN  b + RunLen(s, b, Digits)
    ELSE 0

\* re.findall(r'\$[\d,]+\.?\d*', s): the matches from position i on, in
\* order: the leftmost match, then the matches after it
RECURSIVE AmountsFrom(_, _)
AmountsFrom(s, i) ==
    LET starts == {j \in i..Len(s) : AmountMatchEnd(s, j) > 0}
        first == CHOOSE j \in starts : \A k \in starts : j <= k
    IN  IF starts = {} THEN <<>>
        ELSE <<SubSeq(s, first, AmountMatchEnd(s, first) - 1)>>
                 \o AmountsFrom(s, AmountMatchEnd(s, first))

FindAmounts(s) == AmountsFrom(s, 1)

WordChars == Letters \cup Digits \cup {"_"}

IsWordAt(s, i) == i >= 1 /\ i <= Len(s) /\ Char(s, i) \in WordChars

\* \b between positions i-1 and i
BoundaryAt(s, i) == IsWordAt(s, i - 1) # IsWordAt(s, i)

LocalChars == Letters \cup Digits \cup {".", "_", "%", "+", "-"}
DomainChars == Letters \cup Digits \cup {".", "-"}
\* [A-Z|a-z] holds the bar as a literal
TldChars == Letters \cup {"|"}

\* r'\b[A-Za-z0-9._%+-]+@[A-Za-z0-9.-]+\.[A-Z|a-z]{2,}\b' tried at position
\* i: the position after the match, or 0.  The local part is the whole run up
\* to the '@' (a shorter one is followed by a character of its own class); the
\* domain gives characters back until a '.' followed by at least two TldChars
\* and then a word boundary is found, longest first.
EmailMatchEnd(s, i) ==
    LET l == RunLen(s, i, LocalChars)
        at == i + l
        d == at + 1
        n == RunLen(s, d, DomainChars)
        \* the TLD lengths that match when the domain takes k characters
        TldLens(k) == {m \in 2..RunLen(s, d + k + 1, TldChars) :
                          BoundaryAt(s, d + k + 1 + m)}
        Ks == {k \in 1..n : d + k <= Len(s) /\ Char(s, d + k) = "."
                            /\ TldLens(k) # {}}
    IN  IF i <= Len(s) /\ Char(s, i) \in LocalChars /\ BoundaryAt(s, i)
           /\ at <= Len(s) /\ Char(s, at) = "@" /\ Ks # {}
        THEN LET k == CHOOSE x \in Ks : \A y \in Ks : y <= x
                 m == CHOOSE x \in TldLens(k) : \A y \in TldLens(k) : y <= x
             IN  d + k + 1 + m
        ELSE 0

\* len(re.findall(<the e-mail pattern>, s)) from position i on: the leftmost
\* match, then the matches after it.  A match holds an '@' after its start.
RECURSIVE EmailsFrom(_, _)
EmailsFrom(s, i) ==
    LET starts == {j \in i..Len(s) : EmailMatchEnd(s, j) > 0}
        first == CHOOSE j \in starts : \A k \in starts : j <= k
    IN  IF ~Contains(SubSeq(s, i, Len(s)), "@") \/ starts = {} THEN 0
        ELSE 1 + EmailsFrom(s, EmailMatchEnd(s, first))

CountEmails(s) == EmailsFrom(s, 1)

----------------------------------------------------------------------------
(* EmotionFraudDetector (emotion_fraud_detector.py).                       *)
(* A classifier response clf is [raises, results]: the call raises, or     *)
(* returns the list of [label, score] records the caller iterates over.    *)

Tenths(n) == n * (ONE \div 10)
Hundredths(n) == n * (ONE \div 100)

\* the elements of a sequence of sequences, concatenated
RECURSIVE Flatten(_)
Flatten(ss) == IF ss = <<>> THEN <<>> ELSE Head(ss) \o Flatten(Tail(ss))

is_fraud_indicating_emotion(emotion, confidence) ==
    Lower(emotion) \in {"anger", "fear", "sadness"} /\ confidence > Tenths(3)

\* get_emotion_weight with every confidence counted in full
get_emotion_weight_full(emotion) == 10

\* the weight, in tenths
get_emotion_weight(emotion) ==
    CASE Lower(emotion) = "anger"   -> 4
      [] Lower(emotion) = "fear"    -> 6
      [] Lower(emotion) = "sadness" -> 3
      [] OTHER                      -> 2

\* EmotionErrorResult with a neutral 0.5 in place of the 0.0 of the error dict
EmotionErrorResultNeutral(message) ==
    [emotions |-> <<>>, fraud_indicators |-> <<>>,
     emotion_fraud_score |-> Tenths(5), error |-> message]

\* the except branch of analyze_emotions, and its "Model not loaded" return
EmotionErrorResult(message) ==
    [emotions |-> <<>>, fraud_indicators |-> <<>>,
     emotion_fraud_score |-> 0, error |-> message]

\* the sum of lines 57-74 before "Normalize score"
EmotionRawScore(results) ==
    SumSeq([i \in 1..Len(results) |->
              IF is_fraud_indicating_emotion(results[i].label, results[i].score)
              THEN Times(results[i].score,
                         get_emotion_weight(results[i].label), 10)
              ELSE 0])

\* min(emotion_fraud_score, 1.0)
NormalizeEmotionScore(score) == Min(score, ONE)

\* emotion_fraud_detector.py line 49
text_sample(text) ==
    IF Len(text) > ClassifierMaxChars THEN SubSeq(text, 1, ClassifierMaxChars) ELSE text

\* the texts analyze_emotions hands to self.emotion_model, in order
DetectorClassifierCalls(model_loaded, text) ==
    IF model_loaded THEN <<text_sample(text)>> ELSE <<>>

\* app.py line 538: text_classifier(text[:512])
AppClassifierCalls(classifier_handle, text) ==
    IF classifier_handle # "None" /\ classifier_handle # "limited"
    THEN <<SubSeq(text, 1, Min(Len(text), ClassifierMaxChars))>>
    ELSE <<>>

\* app_updated.py lines 643 and 702: text_classifier(text), twice
UpdatedClassifierCalls(classifier_handle, text) ==
    IF classifier_handle # "None" /\ classifier_handle # "limited"
    THEN <<text, text>>
    ELSE <<>>

\* error |-> "None": the returned dict has no "error" key
analyze_emotions(model_loaded, text, clf) ==
    IF ~model_loaded THEN EmotionErrorResult("Model not loaded")
    ELSE IF clf.raises THEN EmotionErrorResult("raised")
    ELSE [emotions |->
              [i \in 1..Len(clf.results) |->
                  [emotion |-> clf.results[i].label,
                   confidence |-> Round3(clf.results[i].score)]],
          fraud_indicators |->
              Flatten([i \in 1..Len(clf.results) |->
                  IF is_fraud_indicating_emotion(clf.results[i].label,
                                                 clf.results[i].score)
                  THEN <<[emotion |-> clf.results[i].label,
                          confidence |-> Round3(clf.results[i].score)]>>
                  ELSE <<>>]),
          emotion_fraud_score |->
              Round3(NormalizeEmotionScore(EmotionRawScore(clf.results))),
          error |-> "None"]

fraud_keywords ==
    <<"urgent", "immediate", "confidential", "wire transfer", "bitcoin",
      "cryptocurrency", "offshore", "tax haven", "shell company",
      "forged", "fake", "duplicate", "altered", "tampered">>

urgency_words == <<"urgent", "immediate", "asap", "rush", "emergency", "critical">>

\* the keywords of the list that occur in text_lower, in list order
Matches(keywords, text_lower) ==
    Flatten([i \in 1..Len(keywords) |->
                IF Contains(text_lower, keywords[i]) THEN <<keywords[i]>> ELSE <<>>])

\* one fraud_keyword signal per keyword found (lines 171-178 of
\* emotion_fraud_detector.py, 560-567 of app.py, 279-286 of simple_app.py)
KeywordSignals(text_lower) ==
    LET found == Matches(fraud_keywords, text_lower)
    IN  [i \in 1..Len(found) |->
            [pattern |-> "fraud_keyword", confidence |-> Tenths(7),
             description |-> found[i]]]

\* the excessive_amounts signal, given from five amounts on
AmountSignalsFromFive(text) ==
    IF Len(FindAmounts(text)) >= 5
    THEN <<[pattern |-> "excessive_amounts", confidence |-> Tenths(6),
            description |-> "amounts"]>>
    ELSE <<>>

\* the excessive_amounts signal
AmountSignals(text) ==
    IF Len(FindAmounts(text)) > 5
    THEN <<[pattern |-> "excessive_amounts", confidence |-> Tenths(6),
            description |-> "amounts"]>>
    ELSE <<>>

\* the urgency_indicators signal
UrgencySignals(text_lower) ==
    IF Len(Matches(urgency_words, text_lower)) > 2
    THEN <<[pattern |-> "urgency_indicators", confidence |-> Tenths(6),
            description |-> "urgency"]>>
    ELSE <<>>

\* min(pattern_fraud_score, 1.0)
NormalizePatternScore(score) == Min(score, ONE)

analyze_patterns(text) ==
    LET text_lower == Lower(text)
        kw == KeywordSignals(text_lower)
        am == AmountSignals(text)
        ur == UrgencySignals(text_lower)
        pattern_fraud_score ==
            Len(kw) * Tenths(1) + Len(am) * Tenths(2) + Len(ur) * Hundredths(15)
    IN  [patterns |-> kw \o am \o ur,
         pattern_fraud_score |-> NormalizePatternScore(pattern_fraud_score)]

\* _analyze_patterns on the texts of the model
PatternAnalyses == [t \in AnalysedTexts |-> analyze_patterns(t)]

PatternAnalysisOf(text) ==
    IF text \in DOMAIN PatternAnalyses THEN PatternAnalyses[text]
    ELSE analyze_patterns(text)

\* the tier ladder of analyze_fraud_patterns, app.py and simple_app.py
RiskLevel(score) ==
    IF score >= Tenths(8) THEN "critical"
    ELSE IF score >= Tenths(6) THEN "high"
    ELSE IF score >= Tenths(3) THEN "medium"
    ELSE "low"

\* CombineScores with the two weights exchanged
CombineScoresSwapped(emotion_fraud_score, pattern_fraud_score) ==
    Times(emotion_fraud_score, 6, 10) + Times(pattern_fraud_score, 4, 10)

\* 40% emotion + 60% patterns
CombineScores(emotion_fraud_score, pattern_fraud_score) ==
    Times(emotion_fraud_score, 4, 10) + Times(pattern_fraud_score, 6, 10)

\* total_fraud_score is the local the tier is derived from; the returned dict
\* holds only its rounding, fraud_score
FraudPatternsResult(emotion_analysis, pattern_analysis, total_fraud_score) ==
    [fraud_score |-> Round3(total_fraud_score),
     risk_level |-> RiskLevel(total_fraud_score),
     emotion_analysis |-> emotion_analysis,
     pattern_analysis |-> pattern_analysis,
     total_fraud_score |-> total_fraud_score,
     error |-> FALSE]

\* lines 125-134: the two analyses and their combination
CombinedAnalyses(emotion_analysis, pattern_analysis) ==
    FraudPatternsResult(emotion_analysis, pattern_analysis,
        CombineScores(emotion_analysis.emotion_fraud_score,
                      pattern_analysis.pattern_fraud_score))

analyze_fraud_patterns(model_loaded, text, clf) ==
    CombinedAnalyses(analyze_emotions(model_loaded, text, clf),
                     PatternAnalysisOf(text))

----------------------------------------------------------------------------
(* analyze_text_for_fraud of app.py and simple_app.py.                     *)

\* "if text_classifier and text_classifier != 'limited'"
Usable(handle) == handle # "None" /\ handle # "limited"

\* app.py lines 541-548: no confidence threshold, the label is searched for
\* the three words
SuspiciousEmotionSignals(results) ==
    Flatten([i \in 1..Len(results) |->
        IF \E word \in {"anger", "fear", "sadness"} :
               Contains(Lower(results[i].label), word)
        THEN <<[pattern |-> "suspicious_emotion",
                confidence |-> results[i].score,
                description |-> results[i].label]>>
        ELSE <<>>])

\* the multiple_emails signal
EmailSignals(text) ==
    IF CountEmails(text) > 3
    THEN <<[pattern |-> "multiple_emails", confidence |-> Tenths(5),
            description |-> "emails"]>>
    ELSE <<>>

\* the signals of the text-only steps 2-4 of analyze_text_for_fraud, and the
\* urgency signal of simple_app.py
SignalsOfText(text) ==
    [kw |-> KeywordSignals(Lower(text)),
     am |-> AmountSignals(text),
     ml |-> EmailSignals(text),
     ur |-> UrgencySignals(Lower(text))]

\* SignalsOfText on the texts of the model
TextSignals == [t \in AnalysedTexts |-> SignalsOfText(t)]

TextSignalsOf(text) ==
    IF text \in DOMAIN TextSignals THEN TextSignals[text] ELSE SignalsOfText(text)

\* NormalizeFraudScore without the min
NormalizeFraudScoreUnclamped(score) == score

\* "Normalize fraud score": min(fraud_score, 1.0)
NormalizeFraudScore(score) == Min(score, ONE)

\* app.py: classifier_handle is the global text_classifier
\* the dict returned for a list of signals and the normalized score
TextFraudResult(patterns, fraud_score) ==
    [fraud_score |-> Round3(fraud_score),
     risk_level |-> RiskLevel(fraud_score),
     patterns |-> patterns,
     total_fraud_score |-> fraud_score,
     error |-> FALSE]

\* app.py, for the emotion signals em of step 1 and the signals sig of the
\* text-only steps
AppTextAnalysis(em, sig) ==
    TextFraudResult(em \o sig.kw \o sig.am \o sig.ml,
        NormalizeFraudScore(
            SumSeq([i \in 1..Len(em) |-> Times(em[i].confidence, 2, 10)])
            + Len(sig.kw) * Tenths(1) + Len(sig.am) * Tenths(2)
            + Len(sig.ml) * Tenths(1)))

app_analyze_text_for_fraud(classifier_handle, text, clf) ==
    AppTextAnalysis(IF Usable(classifier_handle) /\ ~clf.raises
                    THEN SuspiciousEmotionSignals(clf.results)
                    ELSE <<>>,
                    TextSignalsOf(text))

\* simple_app.py, for the signals sig of its four steps
SimpleTextAnalysis(sig) ==
    TextFraudResult(sig.kw \o sig.am \o sig.ml \o sig.ur,
        NormalizeFraudScore(
            Len(sig.kw) * Tenths(1) + Len(sig.am) * Tenths(2)
            + Len(sig.ml) * Tenths(1) + Len(sig.ur) * Hundredths(15)))

simple_analyze_text_for_fraud(text) == SimpleTextAnalysis(TextSignalsOf(text))

----------------------------------------------------------------------------
(* analyze_text_for_fraud of app_updated.py.  Its confidences are ratios:  *)
(* [num, den] stands for num / den.                                        *)

category_names == <<"urgency", "confidentiality", "payment", "amount">>

category_keywords ==
    <<<<"urgent", "immediate", "asap", "emergency", "critical", "rush">>,
      <<"confidential", "secret", "do not share", "private", "exclusive">>,
      <<"wire transfer", "offshore", "bitcoin", "gift cards", "western union">>,
      <<"amount", "total", "sum", "cost", "price", "payment">>>>

\* the labels of a response above the threshold, as app_updated.py tests them:
\* by equality with the three labels
EmotionHits(results, threshold) ==
    Flatten([i \in 1..Len(results) |->
                IF /\ results[i].label \in {"anger", "fear", "sadness"}
                   /\ results[i].score > threshold
                THEN <<results[i]>>
                ELSE <<>>])

\* CategorySignals with one record per matched keyword, as the keyword loop
\* of app.py appends them
CategorySignalsPerKeyword(text_lower) ==
    Flatten([c \in 1..Len(category_names) |->
        [k \in 1..Len(Matches(category_keywords[c], text_lower)) |->
            [pattern |-> category_names[c],
             confidence |-> [num |-> 1, den |-> Len(category_keywords[c])],
             matches |-> <<Matches(category_keywords[c], text_lower)[k]>>]]])

\* step 2: one record per category with a match
CategorySignals(text_lower) ==
    Flatten([c \in 1..Len(category_names) |->
        LET matches == Matches(category_keywords[c], text_lower)
        IN  IF matches # <<>>
            THEN <<[pattern |-> category_names[c],
                    confidence |-> [num |-> Len(matches),
                                    den |-> Len(category_keywords[c])],
                    matches |-> matches]>>
            ELSE <<>>])

\* the average of a list of ratios whose denominators divide 30 (0.0 when empty)
AverageRatio(fs) ==
    IF fs = <<>> THEN [num |-> 0, den |-> 1]
    ELSE [num |-> SumSeq([i \in 1..Len(fs) |-> fs[i].num * (30 \div fs[i].den)]),
          den |-> 30 * Len(fs)]

\* the tier ladder of app_updated.py
RiskLevelUpdated(score) ==
    IF score >= Tenths(7) THEN "HIGH"
    ELSE IF score >= Tenths(4) THEN "MEDIUM"
    ELSE "LOW"

\* step 2 on the texts of the model
CategoryAnalyses == [t \in AnalysedTexts |-> CategorySignals(Lower(t))]

CategoryAnalysisOf(text) ==
    IF text \in DOMAIN CategoryAnalyses THEN CategoryAnalyses[text]
    ELSE CategorySignals(Lower(text))

\* The iteration order of a set of strings is a function of the hash seed of
\* the process (PYTHONHASHSEED, drawn at random when none is set) and of
\* nothing the program controls.  Two seeds stand for all: one under which
\* the strings of the calls come out in ascending order, one under which
\* they come out in descending order.
HashSeeds == {"seed_a", "seed_b"}

\* list(set(patterns))
ListOfSet(patterns, seed) ==
    IF seed = "seed_a"
    THEN Ascending({patterns[i] : i \in 1..Len(patterns)})
    ELSE Reversed(Ascending({patterns[i] : i \in 1..Len(patterns)}))

\* the list patterns as steps 2 and 3 fill it, before list(set(patterns))
ProducedPatterns(cats, manip) ==
    Flatten([i \in 1..Len(cats) |-> cats[i].matches])
    \o [i \in 1..Len(manip) |-> "Suspicious emotional tone: " \o manip[i].label]

\* "fraud_score = 0.0" at the head of a call; the mutant keeps the score of
\* the call before, as a score held in a module-level variable would be
InitialFraudScoreCarried == IF pc = "done" THEN ret.total_fraud_score ELSE 0

InitialFraudScore == 0

\* clf1 and clf2 are the responses to the two calls of text_classifier (steps 1
\* and 3).  pattern_analysis holds the list pattern_scores itself, so step 3's
\* records show in it, while its pattern_fraud_score was computed before
\* step 3.  produced_patterns is the list patterns before list(set(...)),
\* kept for the properties.
UpdatedTextAnalysis(ran1, clf1, ind, cats, manip, seed) ==
    LET score == InitialFraudScore
                 + SumSeq([i \in 1..Len(ind) |-> Times(ind[i].score, 2, 10)])
                 + SumSeq([i \in 1..Len(cats) |->
                       (cats[i].confidence.num * Tenths(3)) \div cats[i].confidence.den])
                 + SumSeq([i \in 1..Len(manip) |-> Times(manip[i].score, 2, 10)])
        fraud_score == NormalizeFraudScore(score)
        indicator_confs == [i \in 1..Len(ind) |-> ind[i].score]
    IN  [fraud_score |-> Round3(fraud_score),
         risk_level |-> RiskLevelUpdated(fraud_score),
         patterns |-> ListOfSet(ProducedPatterns(cats, manip), seed),
         produced_patterns |-> ProducedPatterns(cats, manip),
         emotion_analysis |->
             IF ran1
             THEN [emotions |-> clf1.results,
                   fraud_indicators |-> ind,
                   emotion_fraud_score |->
                       IF ind = <<>> THEN [num |-> 0, den |-> 1]
                       ELSE [num |-> SumSeq(indicator_confs),
                             den |-> Len(ind) * ONE]]
             ELSE "None",
         pattern_analysis |->
             [patterns |->
                  [i \in 1..Len(cats) |->
                      [pattern |-> cats[i].pattern,
                       confidence |-> cats[i].confidence]]
                  \o [i \in 1..Len(manip) |->
                      [pattern |-> "emotional_manipulation",
                       confidence |-> [num |-> manip[i].score, den |-> ONE]]],
              pattern_fraud_score |->
                  AverageRatio([i \in 1..Len(cats) |-> cats[i].confidence])],
         total_fraud_score |-> fraud_score,
         error |-> FALSE]

\* the fraud indicators of step 1 or the emotion records of step 3: none when
\* the classifier is not usable or raises
EmotionStep(classifier_handle, clf, threshold) ==
    IF Usable(classifier_handle) /\ ~clf.raises
    THEN EmotionHits(clf.results, threshold)
    ELSE <<>>

updated_analyze_text_for_fraud(classifier_handle, text, clf1, clf2, seed) ==
    UpdatedTextAnalysis(Usable(classifier_handle) /\ ~clf1.raises, clf1,
                        EmotionStep(classifier_handle, clf1, Tenths(3)),
                        CategoryAnalysisOf(text),
                        EmotionStep(classifier_handle, clf2, Tenths(5)),
                        seed)

----------------------------------------------------------------------------
(* DocumentQuestionAnsweringService (document_qa_service.py).              *)
(* A response qa of the QA pipeline is [raises, answer, score].  In every  *)
(* record below error |-> "None" says that the dict has no "error" key.    *)

max_context_length == 512

\* lines 48-51: the context handed to the pipeline
TruncatedContext(question, context) ==
    IF Len(context) > max_context_length
    THEN extract_relevant_context(question, context, max_context_length)
    ELSE context

\* the dict answer_question returns once the context is settled; its
\* "context" is the context handed to the pipeline ("None": never built)
AnswerResult(model_loaded, qa, used) ==
    IF ~model_loaded
    THEN [answer |-> "Model not available", confidence |-> 0,
          error |-> "QA model not loaded", context |-> "None"]
    ELSE IF qa.raises
    THEN [answer |-> "Error processing question", confidence |-> 0,
          error |-> "raised", context |-> used]
    ELSE [answer |-> qa.answer, confidence |-> Round3(qa.score),
          error |-> "None", context |-> used]

answer_question(model_loaded, question, context, qa) ==
    AnswerResult(model_loaded, qa, TruncatedContext(question, context))

\* the battery of lines 113-144; the weights are in tenths
fraud_questions ==
    <<[question |-> "What is the total amount mentioned in this document?",
       category |-> "amount_verification", risk_weight |-> 3],
      [question |-> "Are there any urgent or immediate payment requests?",
       category |-> "urgency_indicators", risk_weight |-> 4],
      [question |-> "What contact information is provided in this document?",
       category |-> "contact_verification", risk_weight |-> 2],
      [question |-> "Are there any mentions of wire transfers or cryptocurrency?",
       category |-> "payment_methods", risk_weight |-> 5],
      [question |-> "What is the purpose or reason for this transaction?",
       category |-> "transaction_purpose", risk_weight |-> 3],
      [question |-> "Are there any confidentiality or secrecy requirements mentioned?",
       category |-> "secrecy_indicators", risk_weight |-> 6]>>

\* str.replace(old, "") for a one-character old
RemoveChar(s, c) ==
    LET pieces == Split(s, c)
        F[i \in 0..Len(pieces)] == IF i = 0 THEN "" ELSE F[i - 1] \o pieces[i]
    IN  F[Len(pieces)]

DigitValue(c) == Ord(c) - Ord("0")

\* the value of a string of digits
RECURSIVE DigitsValue(_, _)
DigitsValue(s, acc) ==
    IF s = "" THEN acc ELSE DigitsValue(Tail(s), 10 * acc + DigitValue(Head(s)))

\* float(amount_str.replace('$', '').replace(',', '')) > 10000, where
\* amount_str matched the amount pattern; float("") raises ValueError, which
\* the code passes over
AmountIsLarge(amount_str) ==
    LET num == RemoveChar(RemoveChar(amount_str, "$"), ",")
        int_len == RunLen(num, 1, Digits)
        int_part == DigitsValue(SubSeq(num, 1, int_len), 0)
        frac == SubSeq(num, int_len + 2, Len(num))
    IN  /\ num # ""
        /\ \/ int_part > 10000
           \/ int_part = 10000 /\ \E i \in 1..Len(frac) : Char(frac, i) # "0"

\* the word list scanned for a category, and the risk each word adds (tenths)
CategoryWords(category) ==
    CASE category = "urgency_indicators" ->
            <<"urgent", "immediate", "asap", "rush", "emergency", "critical", "now">>
      [] category = "payment_methods" ->
            <<"wire transfer", "bitcoin", "cryptocurrency", "cash", "untraceable">>
      [] category = "secrecy_indicators" ->
            <<"confidential", "secret", "private", "don't tell", "keep quiet", "discrete">>
      [] OTHER -> <<>>

CategoryStep(category) ==
    CASE category = "urgency_indicators" -> 2
      [] category = "payment_methods" -> 3
      [] category = "secrecy_indicators" -> 4
      [] OTHER -> 0

general_fraud_words ==
    <<"fake", "forged", "duplicate", "altered", "tampered", "offshore", "shell company">>

\* min(risk_score, 1.0)
NormalizeRiskScore(score) == Min(score, ONE)

\* the amounts of the list above 10000, in order
LargeOnes(amount_patterns) ==
    Flatten([i \in 1..Len(amount_patterns) |->
                IF AmountIsLarge(amount_patterns[i])
                THEN <<amount_patterns[i]>>
                ELSE <<>>])

\* the amounts of the answer above 10000, looked for in one category only
LargeAmounts(answer, category) ==
    IF category = "amount_verification"
    THEN LargeOnes(FindAmounts(answer))
    ELSE <<>>

\* the dict built from the category's words, the large amounts and the
\* general fraud words found in the answer
AnswerIndicators(category, by_category, large, general) ==
    [risk_score |-> NormalizeRiskScore(Len(by_category) * Tenths(CategoryStep(category))
                                       + Len(large) * Tenths(2)
                                       + Len(general) * Tenths(3)),
     indicators |-> by_category \o large \o general]

AnswerLowerIndicators(answer, answer_lower, category) ==
    AnswerIndicators(category,
                     Matches(CategoryWords(category), answer_lower),
                     LargeAmounts(answer, category),
                     Matches(general_fraud_words, answer_lower))

analyze_answer_for_fraud(question, answer, category) ==
    AnswerLowerIndicators(answer, Lower(answer), category)

\* one iteration of the loop of lines 149-170.  The except branch of lines
\* 172-182 is not modelled: answer_question catches what the pipeline raises
\* and every dict it returns holds "answer" and "confidence", so nothing in
\* the try block raises.
AnalysisEntry(qa_item, result, fraud_indicators) ==
    [question |-> qa_item.question,
     answer |-> result.answer,
     confidence |-> result.confidence,
     category |-> qa_item.category,
     fraud_indicators |-> fraud_indicators,
     risk_score |-> Times(fraud_indicators.risk_score, qa_item.risk_weight, 10),
     error |-> "None"]

AnalysisOfAnswer(qa_item, result) ==
    AnalysisEntry(qa_item, result,
                  analyze_answer_for_fraud(qa_item.question, result.answer,
                                           qa_item.category))

AnalysisItem(model_loaded, qa_item, document_text, qa) ==
    AnalysisOfAnswer(qa_item,
                     answer_question(model_loaded, qa_item.question,
                                     document_text, qa))

\* "Determine overall risk level"
OverallRisk(total_risk_score) ==
    IF total_risk_score >= Tenths(7) THEN "high"
    ELSE IF total_risk_score >= Tenths(4) THEN "medium"
    ELSE "low"

\* total_risk_score as the loop leaves it
TotalRiskScore(fraud_analysis) ==
    SumSeq([i \in 1..Len(fraud_analysis) |-> fraud_analysis[i].risk_score])

\* qas[i] is the pipeline's response to question i.  The records are the
\* returned dicts with their keys (save model_used and timestamp).
FraudAnalysisResult(fraud_analysis, total_risk_score) ==
    [fraud_analysis |-> fraud_analysis,
     overall_risk |-> OverallRisk(total_risk_score),
     total_risk_score |-> Round3(total_risk_score),
     questions_analyzed |-> Len(fraud_questions)]

FraudAnalysisSummary(fraud_analysis) ==
    FraudAnalysisResult(fraud_analysis, TotalRiskScore(fraud_analysis))

analyze_document_for_fraud_questions(model_loaded, document_text, qas) ==
    IF ~model_loaded
    THEN [fraud_analysis |-> <<>>, overall_risk |-> "unknown",
          error |-> "QA model not loaded"]
    ELSE FraudAnalysisSummary([i \in 1..Len(fraud_questions) |->
                                  AnalysisItem(model_loaded, fraud_questions[i],
                                               document_text, qas[i])])

\* the /analyze-document-fraud handler of app.py.  HTTPException is an
\* Exception: the 503 raised inside the try block is caught by the handler's
\* own "except Exception" and raised again as a 500; so is the KeyError of a
\* key the service's dict does not hold.
DocumentFraudResponse(document_text, result) ==
    IF {"fraud_analysis", "overall_risk", "total_risk_score",
        "questions_analyzed"} \subseteq DOMAIN result
    THEN [status |-> 200,
          document_length |-> Len(document_text),
          fraud_analysis |-> result.fraud_analysis,
          overall_risk |-> result.overall_risk,
          total_risk_score |-> result.total_risk_score,
          questions_analyzed |-> result.questions_analyzed]
    ELSE [status |-> 500, detail |-> "KeyError"]

analyze_document_fraud(service_handle, model_loaded, document_text, qas) ==
    IF ~Usable(service_handle)
    THEN [status |-> 500, detail |-> "503: Document QA service not available"]
    ELSE DocumentFraudResponse(document_text,
             analyze_document_for_fraud_questions(model_loaded, document_text, qas))

\* the /ask-document handler of app.py: the 503 raised inside the try block
\* is caught by the handler's own "except Exception" and raised again as a
\* 500 whose detail is str() of the first
AskDocumentResponse(question, result) ==
    [status |-> 200,
     question |-> question,
     answer |-> result.answer,
     confidence |-> result.confidence]

ask_document(service_handle, model_loaded, question, document_text, qa) ==
    IF ~Usable(service_handle)
    THEN [status |-> 500, detail |-> "503: Document QA service not available"]
    ELSE AskDocumentResponse(question,
             answer_question(model_loaded, question, document_text, qa))

----------------------------------------------------------------------------
(* app_updated.py: text extraction with quality data, process_document.    *)
(* A confidence_score is held in tenths (95.0 is 950); a mean confidence   *)
(* is the pair of the sum and the count of the word confidences.           *)

\* [int(conf) for conf in ocr_data['conf'] if int(conf) > 0]
Confidences(conf) ==
    Flatten([i \in 1..Len(conf) |-> IF conf[i] > 0 THEN <<conf[i]>> ELSE <<>>])

\* round(avg_confidence, 1), in tenths, where avg_confidence is sum / count
\* (0 for no confidences) and not midway between two tenths
RoundTenths(sum, count) ==
    IF count = 0 THEN 0 ELSE (20 * sum + count) \div (2 * count)

\* get_quality_level(sum / count), and get_quality_level(0) when count = 0
get_quality_level(sum, count) ==
    IF count > 0 /\ sum >= 90 * count THEN "excellent"
    ELSE IF count > 0 /\ sum >= 70 * count THEN "good"
    ELSE IF count > 0 /\ sum >= 50 * count THEN "fair"
    ELSE "poor"

\* get_processing_notes(sum / count)
get_processing_notes(sum, count) ==
    IF count > 0 /\ sum >= 90 * count
    THEN "High quality text extraction - ready for analysis"
    ELSE IF count > 0 /\ sum >= 70 * count
    THEN "Good text extraction - minor quality issues detected"
    ELSE IF count > 0 /\ sum >= 50 * count
    THEN "Fair text extraction - some text may need manual review"
    ELSE "Poor text extraction - consider uploading a clearer image"

allowed_types ==
    {"application/pdf", "image/jpeg", "image/png", "image/tiff",
     "application/vnd.openxmlformats-officedocument.wordprocessingml.document"}

\* the dict of the image branch, for the confidences above zero
ImageExtraction(text, confidences) ==
    [extracted_text |-> Strip(text),
     confidence_score |-> RoundTenths(SumSeq(confidences), Len(confidences)),
     quality_level |-> get_quality_level(SumSeq(confidences), Len(confidences)),
     preprocessing_applied |-> TRUE,
     text_blocks |-> Len(confidences),
     processing_notes |-> get_processing_notes(SumSeq(confidences), Len(confidences)),
     file_type |-> "image"]

\* the dicts of the PDF and Word branches
ReliableExtraction(text, blocks, confidence_score, notes, file_type) ==
    [extracted_text |-> Strip(text),
     confidence_score |-> confidence_score,
     quality_level |-> "excellent",
     preprocessing_applied |-> FALSE,
     text_blocks |-> blocks,
     processing_notes |-> notes,
     file_type |-> file_type]

\* the dicts of the else branch and of the except branch
FailedExtraction(text, notes, file_type) ==
    [extracted_text |-> text,
     confidence_score |-> 0,
     quality_level |-> "failed",
     preprocessing_applied |-> FALSE,
     text_blocks |-> 0,
     processing_notes |-> notes,
     file_type |-> file_type]

\* extraction is what the libraries do with the content: they raise, or give
\* a text, a number of blocks (pages, paragraphs) and, for an image, the
\* confidences conf of the blocks pytesseract found
extract_text_with_quality_enhancement(content_type, extraction) ==
    IF content_type \notin allowed_types
    THEN FailedExtraction("Unsupported file type for text extraction",
                          "File type not supported for text extraction",
                          "unsupported")
    ELSE IF extraction.raises
    THEN FailedExtraction("OCR processing failed",
                          "Error during text extraction: raised", "error")
    ELSE IF content_type = "application/pdf"
    THEN ReliableExtraction(extraction.text, extraction.blocks, 950,
                            "PDF text extraction - high reliability", "pdf")
    ELSE IF content_type \in {"image/jpeg", "image/png", "image/tiff"}
    THEN ImageExtraction(extraction.text, Confidences(extraction.conf))
    ELSE ReliableExtraction(extraction.text, extraction.blocks, 980,
             "Word document text extraction - very high reliability", "docx")

\* app.py extract_text_from_document: the text alone; text.strip() of what
\* the library gives, or one of two messages
extract_text_from_document(content_type, extraction) ==
    IF content_type \notin allowed_types
    THEN "Unsupported file type for text extraction"
    ELSE IF extraction.raises
    THEN "Error extracting text from document"
    ELSE Strip(extraction.text)

\* extracted_text[:500] + "..." if len(extracted_text) > 500 else extracted_text
TextShown(extracted_text) ==
    IF Len(extracted_text) > 500 THEN Prefix(extracted_text, 500) \o "..."
    ELSE extracted_text

\* ProcessedDocument with the score scaled by the OCR confidence
ProcessedDocumentDiscounted(content_type, ocr_result, fraud_analysis) ==
    [status |-> 200,
     file_type |-> content_type,
     extracted_text |-> TextShown(ocr_result.extracted_text),
     fraud_score |-> (fraud_analysis.fraud_score * ocr_result.confidence_score) \div 1000,
     fraud_risk_level |-> fraud_analysis.risk_level,
     detected_patterns |-> fraud_analysis.patterns,
     ocr_quality |-> ocr_result]

\* the result dict of process_document
ProcessedDocument(content_type, ocr_result, fraud_analysis) ==
    [status |-> 200,
     file_type |-> content_type,
     extracted_text |-> TextShown(ocr_result.extracted_text),
     fraud_score |-> fraud_analysis.fraud_score,
     fraud_risk_level |-> fraud_analysis.risk_level,
     detected_patterns |-> fraud_analysis.patterns,
     ocr_quality |-> ocr_result]

\* the text process_document hands to analyze_text_for_fraud
ExtractedText(content_type, extraction) ==
    extract_text_with_quality_enhancement(content_type, extraction).extracted_text

\* the HTTPException of line 176 is raised inside the try block and leaves
\* as the 500 of line 218
process_document(classifier_handle, content_type, extraction, clf1, clf2, seed) ==
    IF content_type \notin allowed_types
    THEN [status |-> 500, detail |-> "400: Unsupported file type: " \o content_type]
    ELSE ProcessedDocument(content_type,
             extract_text_with_quality_enhancement(content_type, extraction),
             updated_analyze_text_for_fraud(classifier_handle,
                 ExtractedText(content_type, extraction), clf1, clf2, seed))

----------------------------------------------------------------------------
(* The inputs of the calls.                                                *)

Labels == <<"anger", "fear", "sadness", "joy">>

\* 0, 0.3, 0.3004 and 1.0
ConfLevels == {0, Tenths(3), Tenths(3) + 40, ONE}

Raises == [raises |-> TRUE, results |-> <<>>]

\* the capability was not called
NotCalled == [raises |-> FALSE, results |-> <<>>]

\* the classifier gives fear 0.998 and nothing else
NearlyCertainFear ==
    [raises |-> FALSE,
     results |-> [i \in 1..Len(Labels) |->
                    [label |-> Labels[i],
                     score |-> IF Labels[i] = "fear" THEN ONE - 200 ELSE 0]]]

\* the classifier raises, or scores every label: at most MaxHot of them above
\* zero, or all of them 1.0; or it is nearly certain of fear
ClassifierResponses ==
    {Raises, NearlyCertainFear} \cup
    {[raises |-> FALSE,
      results |-> [i \in 1..Len(Labels) |-> [label |-> Labels[i], score |-> f[i]]]] :
        f \in {g \in [1..Len(Labels) -> ConfLevels] :
                  \/ Cardinality({i \in 1..Len(Labels) : g[i] > 0}) <= MaxHot
                  \/ \A i \in 1..Len(Labels) : g[i] = ONE}}

\* the classifier is certain of one label
CertainOf(label) ==
    [raises |-> FALSE,
     results |-> [i \in 1..Len(Labels) |->
                    [label |-> Labels[i],
                     score |-> IF Labels[i] = label THEN ONE ELSE 0]]]

\* the responses of the classifier to an extracted text
DocumentClassifierResponses ==
    {Raises} \cup {CertainOf(Labels[i]) : i \in 1..Len(Labels)}

ContentTypes ==
    {"application/pdf", "image/png", "text/plain",
     "application/vnd.openxmlformats-officedocument.wordprocessingml.document"}

\* count times the confidence level, then level - 1 once
NearlyAll(level, count) == [i \in 1..(count + 1) |-> IF i <= count THEN level ELSE level - 1]

\* ocr_data['conf'] of an image: no block, blocks without words (-1, 0), one
\* word at a level of the ladder, or MaxBlocks words at 90 and one at 89
\* (mean 89.95..)
OcrConfidences ==
    {<<>>, <<-1, 0>>, <<-1, 95>>, <<90>>, <<70>>, <<69>>, <<50>>, <<49>>,
     NearlyAll(90, MaxBlocks)}

ExtractionRaises == [raises |-> TRUE, text |-> "", blocks |-> 0, conf |-> <<>>]

\* what the libraries make of the content of an upload of the type
Extractions(content_type) ==
    IF content_type \notin allowed_types
    THEN {[raises |-> FALSE, text |-> "", blocks |-> 0, conf |-> <<>>]}
    ELSE {ExtractionRaises} \cup
         {[raises |-> FALSE, text |-> text, blocks |-> 2, conf |-> conf] :
             text \in ExtractedTexts,
             conf \in (IF content_type = "image/png" THEN OcrConfidences ELSE {<<>>})}

SentencePool == <<"bbbb", "a", "pay now", " Pay up">>

RECURSIVE JoinDots(_)
JoinDots(ss) ==
    IF Len(ss) = 1 THEN Head(ss) ELSE Head(ss) \o "." \o JoinDots(Tail(ss))

\* the empty document and the documents of 1..MaxSentences pieces of the pool
Documents ==
    {""} \cup
    UNION {{JoinDots([i \in 1..n |-> SentencePool[f[i]]]) :
               f \in [1..n -> 1..Len(SentencePool)]} : n \in 1..MaxSentences}

Questions == {"pay now", "What is due?"}

\* a first sentence of exactly max_context_length characters, then one more
LongDocument == Repeat("paynow x", 64) \o ".a"

ShortDocument == "Please pay $50,000 now. Keep it secret."

QADocuments == {ShortDocument, LongDocument}

RiskyAnswer == "urgent: $50,000 offshore in bitcoin cash now, secret private"

QARaises == [raises |-> TRUE, answer |-> "", score |-> 0]

\* the pipeline raises, or returns an empty, a risky or a harmless answer
QAResponses ==
    {QARaises,
     [raises |-> FALSE, answer |-> "", score |-> 0],
     [raises |-> FALSE, answer |-> RiskyAnswer, score |-> Tenths(8) + 7654],
     [raises |-> FALSE, answer |-> "thank you", score |-> Tenths(5)]}

\* the pipeline's responses to the questions of one battery run
BatteryResponses ==
    {f \in [1..Len(fraud_questions) -> QAResponses] :
        \E base \in QAResponses :
            Cardinality({i \in 1..Len(fraud_questions) : f[i] # base})
                <= MaxDeviations}

NoBatteryResponses == [i \in 1..Len(fraud_questions) |-> QARaises]

----------------------------------------------------------------------------
(* config.py: the server section of Config.  An environment variable is   *)
(* a record [set, value]; the config file is [exists, server], server the  *)
(* keys its [server] section gives.                                        *)

\* the defaults _load_config writes first
DefaultServer ==
    [host |-> "0.0.0.0", port |-> "8001", reload |-> "true", log_level |-> "info"]

\* self.config.read(config_file) when os.path.exists(config_file)
ReadConfigFile(server, file) ==
    [k \in DOMAIN server |->
        IF file.exists /\ k \in DOMAIN file.server THEN file.server[k] ELSE server[k]]

\* "if os.getenv(name):" is false for a variable that is unset and for one
\* set to the empty string
EnvGiven(var) == var.set /\ var.value # ""

Config_apply_env_overrides(server, env) ==
    [k \in DOMAIN server |-> IF EnvGiven(env[k]) THEN env[k].value ELSE server[k]]

\* a loading order that reads the file after the environment
Config_load_config_file_last(env, file) ==
    ReadConfigFile(Config_apply_env_overrides(DefaultServer, env), file)

Config_load_config(env, file) ==
    Config_apply_env_overrides(ReadConfigFile(DefaultServer, file), env)

\* int(s) for the strings of the model: the digits' value, ValueError for a
\* string that is empty or holds another character
IsDecimal(s) == s # "" /\ RunLen(s, 1, Digits) = Len(s)

get_server_config(server) ==
    IF ~IsDecimal(server.port)
    THEN [raises |-> TRUE]
    ELSE [raises |-> FALSE,
          host |-> server.host,
          port |-> DigitsValue(server.port, 0),
          reload |-> (Lower(server.reload) = "true"),
          log_level |-> server.log_level]

\* os.environ: FRAUDDOCAI_HOST, _PORT, _RELOAD and _LOG_LEVEL, each unset,
\* or set (to the empty string too)
EnvUnset == [set |-> FALSE, value |-> ""]

EnvSet(value) == [set |-> TRUE, value |-> value]

Environments ==
    [host : {EnvUnset, EnvSet(""), EnvSet("127.0.0.1")},
     port : {EnvUnset, EnvSet(""), EnvSet("9001"), EnvSet("90x1")},
     reload : {EnvUnset, EnvSet("False")},
     log_level : {EnvUnset, EnvSet("debug")}]

\* config.ini: absent, or present with some keys of [server]
ConfigFiles ==
    {[exists |-> FALSE, server |-> [k \in {} |-> ""]],
     [exists |-> TRUE, server |-> [host |-> "10.0.0.5", port |-> "8080"]],
     [exists |-> TRUE, server |-> [log_level |-> "warning", reload |-> "TRUE"]],
     [exists |-> TRUE, server |-> [port |-> ""]]}

----------------------------------------------------------------------------
(* The state machine.  A process runs one module: app.py, app_updated.py   *)
(* or simple_app.py as a server, or emotion_fraud_detector.py or           *)
(* document_qa_service.py, whose main constructs the class and calls its   *)
(* methods.                                                                *)

NoHandles ==
    [document_processor |-> "None", fraud_detector |-> "None",
     embedding_model |-> "None", text_classifier |-> "None",
     question_answering_model |-> "None", document_qa_service |-> "None"]

LimitedHandles ==
    [document_processor |-> "limited", fraud_detector |-> "limited",
     embedding_model |-> "limited", text_classifier |-> "limited",
     question_answering_model |-> "limited", document_qa_service |-> "limited"]

LoadedHandles ==
    [document_processor |-> "ready", fraud_detector |-> "ready",
     embedding_model |-> "model", text_classifier |-> "model",
     question_answering_model |-> "model", document_qa_service |-> "service"]

\* datetime.utcnow() as one analysis reads it: when it starts, when the
\* emotion analysis is stamped, when the result is built (in ticks)
ClockReadings ==
    {[start |-> 0, emotion |-> 0, end |-> 0],
     [start |-> 0, emotion |-> 0, end |-> 1],
     [start |-> 0, emotion |-> 1, end |-> 1]}

\* (datetime.utcnow() - start_time), in ticks
Elapsed(time) == time.end - time.start

\* a result without clock-derived fields in the model
NoStamps == [op |-> "none"]

\* processing_time of app.py, app_updated.py and simple_app.py
AppStamps(time) == [processing_time |-> Elapsed(time)]

\* processing_time_ms and timestamp of analyze_fraud_patterns, and the
\* timestamp of the emotion analysis when the classifier answered
DetectorStamps(model_loaded, clf, time) ==
    IF model_loaded /\ ~clf.raises
    THEN [processing_time_ms |-> Elapsed(time), timestamp |-> time.end,
          emotion_timestamp |-> time.emotion]
    ELSE [processing_time_ms |-> Elapsed(time), timestamp |-> time.end]

Tasks == 1..MaxTasks

\* the frame of a task that runs no call: no arguments, no detector has
\* reported, the accumulators as the first statements of a call set them
PendingAnalysis ==
    [pending |-> TRUE, emotion_fraud_score |-> 0, pattern_fraud_score |-> 0]

IdleFrame ==
    [pc |-> "idle", text |-> "", clf |-> NotCalled, reported |-> {},
     emotion_analysis |-> PendingAnalysis, pattern_analysis |-> PendingAnalysis,
     patterns |-> <<>>, fraud_score |-> 0, result |-> [pending |-> TRUE]]

NoFrames == [t \in Tasks |-> IdleFrame]

Init ==
    /\ frames = NoFrames
    /\ program = "None"
    /\ handles = NoHandles
    /\ qa_loaded = FALSE
    /\ emo_loaded = FALSE
    /\ pc = "boot"
    /\ call = [op |-> "none"]
    /\ ret = [op |-> "none"]
    /\ stamps = NoStamps
    /\ hash_seed = "None"

\* the try block of startup_event / lifespan: failed_at = 0, or the number of
\* the load that raises (1: the classifier pipeline, 2: the QA pipeline, 3: the
\* sentence transformer, 4: the import of document_qa_service).
\* DocumentQuestionAnsweringService() itself never raises: its _load_model
\* records the failure in model_loaded.
\* the handles when the load numbered failed_at raises: the models loaded
\* before it are assigned, the others still None; document_processor and
\* fraud_detector are assigned between the third load and the import
HandlesLoadedBefore(failed_at) ==
    [document_processor |-> IF failed_at > 3 THEN "ready" ELSE "None",
     fraud_detector |-> IF failed_at > 3 THEN "ready" ELSE "None",
     embedding_model |-> IF failed_at > 3 THEN "model" ELSE "None",
     text_classifier |-> IF failed_at > 1 THEN "model" ELSE "None",
     question_answering_model |-> IF failed_at > 2 THEN "model" ELSE "None",
     document_qa_service |-> "None"]

\* an except branch that marks only the handles not assigned yet
ExceptHandlesKeepingLoaded(partial) ==
    [h \in DOMAIN partial |-> IF partial[h] = "None" THEN "limited" ELSE partial[h]]

\* the except branch assigns "limited" to all six handles
ExceptHandles(partial) == LimitedHandles

LoadModels(failed_at, qa_model_loads) ==
    /\ handles' = IF failed_at = 0 THEN LoadedHandles
                  ELSE ExceptHandles(HandlesLoadedBefore(failed_at))
    /\ qa_loaded' = (failed_at = 0 /\ qa_model_loads)

\* app.py
startup_event ==
    /\ pc = "boot"
    /\ \E failed_at \in 0..4, qa_model_loads \in BOOLEAN :
          LoadModels(failed_at, qa_model_loads)
    /\ program' = "app"
    /\ pc' = "idle"
    /\ UNCHANGED <<frames, emo_loaded, call, ret, stamps, hash_seed>>

\* app_updated.py; the process draws its string hash seed when it starts
lifespan ==
    /\ pc = "boot"
    /\ \E failed_at \in 0..4, qa_model_loads \in BOOLEAN :
          LoadModels(failed_at, qa_model_loads)
    /\ hash_seed' \in HashSeeds
    /\ program' = "app_updated"
    /\ pc' = "idle"
    /\ UNCHANGED <<frames, emo_loaded, call, ret, stamps>>

\* simple_app.py loads nothing
simple_app_main ==
    /\ pc = "boot"
    /\ program' = "simple_app"
    /\ pc' = "idle"
    /\ UNCHANGED <<frames, handles, qa_loaded, emo_loaded, call, ret, stamps, hash_seed>>

\* EmotionFraudDetector.__init__ and _load_model
EmotionFraudDetector_init ==
    /\ pc = "boot"
    /\ emo_loaded' \in BOOLEAN
    /\ program' = "emotion_fraud_detector"
    /\ pc' = "idle"
    /\ UNCHANGED <<frames, handles, qa_loaded, call, ret, stamps, hash_seed>>

\* DocumentQuestionAnsweringService.__init__ and _load_model
DocumentQuestionAnsweringService_init ==
    /\ pc = "boot"
    /\ qa_loaded' \in BOOLEAN
    /\ program' = "document_qa_service"
    /\ pc' = "idle"
    /\ UNCHANGED <<frames, handles, emo_loaded, call, ret, stamps, hash_seed>>

\* config.py: the module's "config = Config()"; every reload builds the
\* object anew from the environment and the file
Config_init ==
    /\ pc = "boot"
    /\ program' = "config"
    /\ pc' = "idle"
    /\ UNCHANGED <<frames, handles, qa_loaded, emo_loaded, call, ret, stamps, hash_seed>>

ReturnsAt(c, r, st) ==
    /\ call' = c
    /\ ret' = r
    /\ stamps' = st
    /\ pc' = "done"
    /\ UNCHANGED <<frames, program, handles, qa_loaded, emo_loaded, hash_seed>>

Returns(c, r) == ReturnsAt(c, r, NoStamps)

\* the same call made once more by the caller: same text, same responses of
\* the classifier, the clock read afresh
ReturnsAgain(r, st) ==
    /\ ret' = r
    /\ stamps' = st
    /\ pc' = "repeated"
    /\ UNCHANGED <<frames, program, handles, qa_loaded, emo_loaded, hash_seed, call>>

\* the responses of the classifier when it is called at all
ClassifierInputs(called) == IF called THEN ClassifierResponses ELSE {NotCalled}

\* the responses of the QA pipeline to a battery when it is called at all
BatteryInputs(called) == IF called THEN BatteryResponses ELSE {NoBatteryResponses}

AnalyzeFraudPatterns ==
    /\ pc = "idle"
    /\ program = "emotion_fraud_detector"
    /\ \E text \in Texts, clf \in ClassifierInputs(emo_loaded) :
       \E result \in {analyze_fraud_patterns(emo_loaded, text, clf)} :
       \E time \in ClockReadings :
          ReturnsAt([op |-> "analyze_fraud_patterns", text |-> text, clf |-> clf,
                     clf_args |-> DetectorClassifierCalls(emo_loaded, text)],
                    result, DetectorStamps(emo_loaded, clf, time))

AnalyzeFraudPatternsAgain ==
    /\ pc = "done"
    /\ call.op = "analyze_fraud_patterns"
    /\ \E result \in {analyze_fraud_patterns(emo_loaded, call.text, call.clf)} :
       \E time \in ClockReadings :
          ReturnsAgain(result, DetectorStamps(emo_loaded, call.clf, time))

AppAnalyzeText ==
    /\ pc = "idle"
    /\ program = "app"
    /\ \E text \in Texts, clf \in ClassifierInputs(Usable(handles.text_classifier)) :
       \E result \in {app_analyze_text_for_fraud(handles.text_classifier, text, clf)} :
       \E time \in ClockReadings :
          ReturnsAt([op |-> "app.analyze_text_for_fraud", text |-> text, clf |-> clf,
                     clf_args |-> AppClassifierCalls(handles.text_classifier, text)],
                    result, AppStamps(time))

AppAnalyzeTextAgain ==
    /\ pc = "done"
    /\ call.op = "app.analyze_text_for_fraud"
    /\ \E result \in {app_analyze_text_for_fraud(handles.text_classifier,
                                                   call.text, call.clf)} :
       \E time \in ClockReadings :
          ReturnsAgain(result, AppStamps(time))

SimpleAnalyzeText ==
    /\ pc = "idle"
    /\ program = "simple_app"
    /\ \E text \in Texts :
       \E result \in {simple_analyze_text_for_fraud(text)} :
       \E time \in ClockReadings :
          ReturnsAt([op |-> "simple_app.analyze_text_for_fraud", text |-> text,
                     clf |-> NotCalled],
                    result, AppStamps(time))

SimpleAnalyzeTextAgain ==
    /\ pc = "done"
    /\ call.op = "simple_app.analyze_text_for_fraud"
    /\ \E result \in {simple_analyze_text_for_fraud(call.text)} :
       \E time \in ClockReadings :
          ReturnsAgain(result, AppStamps(time))

\* the two calls of one request see the same text: the second either raises or
\* answers as the first did
UpdatedAnalyzeText ==
    /\ pc = "idle"
    /\ program = "app_updated"
    /\ \E text \in Texts, clf1 \in ClassifierInputs(Usable(handles.text_classifier)) :
       \E clf2 \in {clf1} \cup (IF Usable(handles.text_classifier) THEN {Raises} ELSE {}) :
       \E result \in {updated_analyze_text_for_fraud(handles.text_classifier, text,
                                                      clf1, clf2, hash_seed)} :
       \E time \in ClockReadings :
          ReturnsAt([op |-> "app_updated.analyze_text_for_fraud", text |-> text,
                     clf |-> clf1, clf2 |-> clf2,
                     clf_args |-> UpdatedClassifierCalls(handles.text_classifier, text)],
                    result, AppStamps(time))

UpdatedAnalyzeTextAgain ==
    /\ pc = "done"
    /\ call.op = "app_updated.analyze_text_for_fraud"
    /\ \E result \in {updated_analyze_text_for_fraud(handles.text_classifier,
                                                      call.text, call.clf, call.clf2,
                                                      hash_seed)} :
       \E time \in ClockReadings :
          ReturnsAgain(result, AppStamps(time))

\* ranked is the sorted list of the call, kept for the properties
ExtractRelevantContext ==
    /\ pc = "idle"
    /\ program = "document_qa_service"
    /\ \E question \in Questions, context \in Documents, max_length \in 0..MaxMaxLength :
          Returns([op |-> "extract_relevant_context", question |-> question,
                   context |-> context, max_length |-> max_length],
                  [excerpt |-> extract_relevant_context(question, context, max_length),
                   ranked |-> SortReverse(ScoredSentences(question, context))])

AnswerQuestion ==
    /\ pc = "idle"
    /\ program = "document_qa_service"
    /\ \E question \in Questions, context \in QADocuments,
          qa \in (IF qa_loaded THEN QAResponses ELSE {QARaises}) :
          Returns([op |-> "answer_question", question |-> question,
                   context |-> context, qa |-> qa],
                  answer_question(qa_loaded, question, context, qa))

AnalyzeDocumentForFraudQuestions ==
    /\ pc = "idle"
    /\ program = "document_qa_service"
    /\ \E document_text \in QADocuments, qas \in BatteryInputs(qa_loaded) :
          Returns([op |-> "analyze_document_for_fraud_questions",
                   document_text |-> document_text, qas |-> qas],
                  analyze_document_for_fraud_questions(qa_loaded, document_text, qas))

\* the /analyze-document-fraud handler of app.py
AnalyzeDocumentFraud ==
    /\ pc = "idle"
    /\ program = "app"
    /\ \E document_text \in QADocuments,
          qas \in BatteryInputs(Usable(handles.document_qa_service) /\ qa_loaded) :
          Returns([op |-> "analyze_document_fraud",
                   document_text |-> document_text, qas |-> qas],
                  analyze_document_fraud(handles.document_qa_service, qa_loaded,
                                         document_text, qas))

\* the /ask-document handler of app.py
AskDocument ==
    /\ pc = "idle"
    /\ program = "app"
    /\ \E question \in Questions, document_text \in QADocuments,
          qa \in (IF Usable(handles.document_qa_service) /\ qa_loaded
                  THEN QAResponses ELSE {QARaises}) :
          Returns([op |-> "ask_document", question |-> question,
                   document_text |-> document_text, qa |-> qa],
                  ask_document(handles.document_qa_service, qa_loaded,
                               question, document_text, qa))

\* a direct call of extract_text_with_quality_enhancement
ExtractTextWithQuality ==
    /\ pc = "idle"
    /\ program = "app_updated"
    /\ \E content_type \in ContentTypes :
       \E extraction \in Extractions(content_type) :
          Returns([op |-> "extract_text_with_quality_enhancement",
                   content_type |-> content_type, extraction |-> extraction],
                  extract_text_with_quality_enhancement(content_type, extraction))

\* a direct call of app.py extract_text_from_document
ExtractTextFromDocument ==
    /\ pc = "idle"
    /\ program = "app"
    /\ \E content_type \in ContentTypes :
       \E extraction \in Extractions(content_type) :
          Returns([op |-> "extract_text_from_document",
                   content_type |-> content_type, extraction |-> extraction],
                  [text |-> extract_text_from_document(content_type, extraction)])

\* the clock-derived fields of the result of process_document
DocumentStamps(status, time) ==
    IF status = 200
    THEN [processing_time_ms |-> Elapsed(time), timestamp |-> time.end]
    ELSE NoStamps

\* the classifier answers the two calls of one analysis alike
DocumentClassifierInputs(called) ==
    IF called THEN DocumentClassifierResponses ELSE {NotCalled}

\* the /process-document handler of app_updated.py
ProcessDocument ==
    /\ pc = "idle"
    /\ program = "app_updated"
    /\ \E content_type \in ContentTypes :
       \E extraction \in Extractions(content_type),
          clf \in DocumentClassifierInputs(Usable(handles.text_classifier)) :
       \E result \in {process_document(handles.text_classifier, content_type,
                                        extraction, clf, clf, hash_seed)} :
       \E time \in ClockReadings :
          ReturnsAt([op |-> "process_document", content_type |-> content_type,
                     extraction |-> extraction, clf |-> clf],
                    result, DocumentStamps(result.status, time))

\* the same text arrives once more in another upload: another file type,
\* other OCR confidences, the same responses of the classifier
ProcessDocumentOtherQuality ==
    /\ pc = "done"
    /\ call.op = "process_document"
    /\ call.content_type \in allowed_types
    /\ \E content_type \in ContentTypes \cap allowed_types :
       \E extraction \in Extractions(content_type) :
          /\ ExtractedText(content_type, extraction)
               = ExtractedText(call.content_type, call.extraction)
          /\ \E result \in {process_document(handles.text_classifier, content_type,
                                              extraction, call.clf, call.clf,
                                              hash_seed)} :
             \E time \in ClockReadings :
                /\ call' = [op |-> "process_document", content_type |-> content_type,
                            extraction |-> extraction, clf |-> call.clf]
                /\ ret' = result
                /\ stamps' = DocumentStamps(result.status, time)
                /\ pc' = "repeated"
                /\ UNCHANGED <<frames, program, handles, qa_loaded, emo_loaded, hash_seed>>

\* app.py health_check: which handles are set, and what the models are
AppHealth ==
    [status |-> "healthy",
     models_loaded |->
        [document_processor |-> handles.document_processor # "None",
         fraud_detector |-> handles.fraud_detector # "None",
         embedding_model |-> handles.embedding_model # "None",
         text_classifier |-> handles.text_classifier # "None",
         question_answering |-> handles.question_answering_model # "None",
         document_qa_service |-> handles.document_qa_service # "None"]]

\* "ready" if handle and handle != "limited" else "limited"
ServiceState(handle) ==
    IF handle # "None" /\ handle # "limited" THEN "ready" ELSE "limited"

\* app_updated.py health_check
UpdatedHealth ==
    [status |-> "healthy",
     services |->
        [document_processor |->
            IF handles.document_processor = "ready" THEN "ready" ELSE "limited",
         fraud_detector |->
            IF handles.fraud_detector = "ready" THEN "ready" ELSE "limited",
         embedding_model |-> ServiceState(handles.embedding_model),
         text_classifier |-> ServiceState(handles.text_classifier),
         question_answering |-> ServiceState(handles.question_answering_model),
         document_qa_service |-> ServiceState(handles.document_qa_service)]]

\* a health check that loads the models when it finds them limited
HandlesAfterHealthCheckReloaded ==
    IF handles = LimitedHandles THEN LoadedHandles ELSE handles

\* the handles when health_check returns: app_updated.py declares them global
\* there and only reads them, app.py reads them without the declaration
HandlesAfterHealthCheck == handles

health_check ==
    /\ pc = "idle"
    /\ program \in {"app", "app_updated"}
    /\ \E time \in ClockReadings :
          /\ call' = [op |-> "health_check"]
          /\ ret' = IF program = "app" THEN AppHealth ELSE UpdatedHealth
          /\ stamps' = [op |-> "health_check", timestamp |-> time.end]
    /\ handles' = HandlesAfterHealthCheck
    /\ pc' = "done"
    /\ UNCHANGED <<frames, program, qa_loaded, emo_loaded, hash_seed>>

\* reload(config) and config.get_server_config(), as test_config.py does
GetServerConfig ==
    /\ pc = "idle"
    /\ program = "config"
    /\ \E env \in Environments, file \in ConfigFiles :
          Returns([op |-> "get_server_config", env |-> env, file |-> file],
                  get_server_config(Config_load_config(env, file)))

\* the response has been delivered; the process waits for the next call
Respond ==
    /\ pc \in {"done", "repeated"}
    /\ pc' = "idle"
    /\ call' = [op |-> "none"]
    /\ ret' = [op |-> "none"]
    /\ stamps' = NoStamps
    /\ UNCHANGED <<frames, program, handles, qa_loaded, emo_loaded, hash_seed>>

Next ==
    \/ startup_event
    \/ lifespan
    \/ simple_app_main
    \/ EmotionFraudDetector_init
    \/ DocumentQuestionAnsweringService_init
    \/ Config_init
    \/ AnalyzeFraudPatterns
    \/ AnalyzeFraudPatternsAgain
    \/ AppAnalyzeText
    \/ AppAnalyzeTextAgain
    \/ SimpleAnalyzeText
    \/ SimpleAnalyzeTextAgain
    \/ UpdatedAnalyzeText
    \/ UpdatedAnalyzeTextAgain
    \/ ExtractRelevantContext
    \/ AnswerQuestion
    \/ AnalyzeDocumentForFraudQuestions
    \/ AnalyzeDocumentFraud
    \/ AskDocument
    \/ ExtractTextWithQuality
    \/ ExtractTextFromDocument
    \/ ProcessDocument
    \/ ProcessDocumentOtherQuality
    \/ health_check
    \/ GetServerConfig
    \/ Respond

Spec == Init /\ [][Next]_vars

----------------------------------------------------------------------------
(* Overlapping analyses.  Several calls of analyze_fraud_patterns (of one   *)
(* EmotionFraudDetector) or of app.py's analyze_text_for_fraud are in      *)
(* flight at once; a step is one statement group of one call, and the      *)
(* steps of the calls interleave freely.  Each call reads self.model_loaded *)
(* or the global text_classifier and otherwise works on its arguments and  *)
(* its local variables.                                                    *)

\* all calls keep their local variables in the frame of the first task
FrameOfShared(t) == 1

\* the frame that holds the local variables of the call of task t: its own
FrameOf(t) == t

\* the detectors whose report a final score of the program is made of
Detectors ==
    IF program = "app"
    THEN {"classifier", "keywords", "amounts", "emails"}
    ELSE {"emotion", "patterns"}

ConcurrentTexts == {Fragments[1], Fragments[2], Fragments[5] \o Fragments[6]}

ConcurrentResponses(called) ==
    IF called THEN {Raises, NearlyCertainFear, CertainOf("joy")} ELSE {NotCalled}

ConcurrentInit ==
    /\ program \in {"app", "emotion_fraud_detector"}
    /\ handles \in (IF program = "app" THEN {LoadedHandles, LimitedHandles}
                    ELSE {NoHandles})
    /\ emo_loaded \in (IF program = "app" THEN {FALSE} ELSE BOOLEAN)
    /\ qa_loaded = FALSE
    /\ pc = "idle"
    /\ call = [op |-> "none"]
    /\ ret = [op |-> "none"]
    /\ stamps = NoStamps
    /\ hash_seed = "None"
    /\ frames = NoFrames

\* what a step of a call leaves alone: everything but the frames
StepFrame ==
    UNCHANGED <<program, handles, qa_loaded, emo_loaded, pc, call, ret, stamps,
                hash_seed>>

\* analyze_fraud_patterns is called: the arguments are bound
BeginAnalyzeFraudPatterns(t) ==
    /\ program = "emotion_fraud_detector"
    /\ frames[t].pc = "idle"
    /\ \E text \in ConcurrentTexts, clf \in ConcurrentResponses(emo_loaded) :
          frames' = [frames EXCEPT ![t].pc = "emotions", ![t].text = text,
                                   ![t].clf = clf]
    /\ StepFrame

\* a call that goes from the emotion analysis straight to the combination
StageAfterEmotionsSkipping == "combine"

\* line 128 follows line 125
StageAfterEmotions == "patterns"

\* line 125: emotion_analysis = self.analyze_emotions(text)
EmotionsStep(t) ==
    /\ frames[t].pc = "emotions"
    /\ frames' = [frames EXCEPT
                     ![FrameOf(t)].emotion_analysis =
                         analyze_emotions(emo_loaded, frames[t].text, frames[t].clf),
                     ![FrameOf(t)].reported = @ \cup {"emotion"},
                     ![t].pc = StageAfterEmotions]
    /\ StepFrame

\* line 128: pattern_analysis = self._analyze_patterns(text)
PatternsStep(t) ==
    /\ frames[t].pc = "patterns"
    /\ frames' = [frames EXCEPT
                     ![FrameOf(t)].pattern_analysis = PatternAnalysisOf(frames[t].text),
                     ![FrameOf(t)].reported = @ \cup {"patterns"},
                     ![t].pc = "combine"]
    /\ StepFrame

\* lines 131-156: the combination, the tier and the returned dict
CombineStep(t) ==
    /\ frames[t].pc = "combine"
    /\ frames' = [frames EXCEPT
                     ![t].result =
                         CombinedAnalyses(frames[FrameOf(t)].emotion_analysis,
                                          frames[FrameOf(t)].pattern_analysis),
                     ![t].pc = "returned"]
    /\ StepFrame

\* app.py analyze_text_for_fraud is called: patterns = [], fraud_score = 0.0
BeginAnalyzeText(t) ==
    /\ program = "app"
    /\ frames[t].pc = "idle"
    /\ \E text \in ConcurrentTexts,
          clf \in ConcurrentResponses(Usable(handles.text_classifier)) :
          frames' = [frames EXCEPT ![t].pc = "classify", ![t].text = text,
                                   ![t].clf = clf]
    /\ StepFrame

\* the signals a step found are appended and their weights added
Accumulate(t, detector, signals, added, next) ==
    frames' = [frames EXCEPT
                  ![FrameOf(t)].patterns = @ \o signals,
                  ![FrameOf(t)].fraud_score = @ + added,
                  ![FrameOf(t)].reported = @ \cup {detector},
                  ![t].pc = next]

\* lines 535-550: step 1, skipped without a classifier, empty when it raises
ClassifyStep(t) ==
    /\ frames[t].pc = "classify"
    /\ \E em \in {IF Usable(handles.text_classifier) /\ ~frames[t].clf.raises
                  THEN SuspiciousEmotionSignals(frames[t].clf.results)
                  ELSE <<>>} :
          Accumulate(t, "classifier", em,
                     SumSeq([i \in 1..Len(em) |-> Times(em[i].confidence, 2, 10)]),
                     "keywords")
    /\ StepFrame

\* lines 552-567: step 2
KeywordsStep(t) ==
    /\ frames[t].pc = "keywords"
    /\ \E kw \in {TextSignalsOf(frames[t].text).kw} :
          Accumulate(t, "keywords", kw, Len(kw) * Tenths(1), "amounts")
    /\ StepFrame

\* lines 569-578: step 3
AmountsStep(t) ==
    /\ frames[t].pc = "amounts"
    /\ \E am \in {TextSignalsOf(frames[t].text).am} :
          Accumulate(t, "amounts", am, Len(am) * Tenths(2), "emails")
    /\ StepFrame

\* lines 580-588: step 4
EmailsStep(t) ==
    /\ frames[t].pc = "emails"
    /\ \E ml \in {TextSignalsOf(frames[t].text).ml} :
          Accumulate(t, "emails", ml, Len(ml) * Tenths(1), "normalize")
    /\ StepFrame

\* lines 590-610: the normalisation, the tier and the returned dict
NormalizeStep(t) ==
    /\ frames[t].pc = "normalize"
    /\ frames' = [frames EXCEPT
                     ![t].result =
                         TextFraudResult(frames[FrameOf(t)].patterns,
                             NormalizeFraudScore(frames[FrameOf(t)].fraud_score)),
                     ![t].pc = "returned"]
    /\ StepFrame

\* the caller has the result; the frames of the call are gone
FrameReturns(t) ==
    /\ frames[t].pc = "returned"
    /\ frames' = [frames EXCEPT ![t] = IdleFrame]
    /\ StepFrame

ConcurrentNext ==
    \E t \in Tasks :
       \/ BeginAnalyzeFraudPatterns(t)
       \/ EmotionsStep(t)
       \/ PatternsStep(t)
       \/ CombineStep(t)
       \/ BeginAnalyzeText(t)
       \/ ClassifyStep(t)
       \/ KeywordsStep(t)
       \/ AmountsStep(t)
       \/ EmailsStep(t)
       \/ NormalizeStep(t)
       \/ FrameReturns(t)

ConcurrentSpec == ConcurrentInit /\ [][ConcurrentNext]_vars

----------------------------------------------------------------------------
(* Properties.  A call has returned when pc = "done"; call holds its       *)
(* inputs and ret what it returned.                                        *)

Returned(op) == pc = "done" /\ call.op = op

InUnit(x) == 0 <= x /\ x <= ONE

RatioInUnit(r) == r.den > 0 /\ 0 <= r.num /\ r.num <= r.den

ConfidencesInUnit(signals) ==
    \A i \in 1..Len(signals) : InUnit(signals[i].confidence)

\* the emotion detector of the call is degraded: the classifier is not
\* loaded, or it raised
Degraded == ~emo_loaded \/ call.clf.raises

\* C1: the fraud_score each analysis entry point returns, its emotion and
\* pattern sub-scores and the confidence of every signal it emits lie in
\* [0,1], whatever the text and the classifier's output.
C1_ScoresInUnitInterval ==
    /\ Returned("analyze_fraud_patterns") =>
          /\ InUnit(ret.fraud_score)
          /\ InUnit(ret.emotion_analysis.emotion_fraud_score)
          /\ InUnit(ret.pattern_analysis.pattern_fraud_score)
          /\ ConfidencesInUnit(ret.emotion_analysis.emotions)
          /\ ConfidencesInUnit(ret.emotion_analysis.fraud_indicators)
          /\ ConfidencesInUnit(ret.pattern_analysis.patterns)
    /\ (Returned("app.analyze_text_for_fraud")
        \/ Returned("simple_app.analyze_text_for_fraud")) =>
          /\ InUnit(ret.fraud_score)
          /\ ConfidencesInUnit(ret.patterns)
    /\ Returned("app_updated.analyze_text_for_fraud") =>
          /\ InUnit(ret.fraud_score)
          /\ RatioInUnit(ret.pattern_analysis.pattern_fraud_score)
          /\ \A i \in 1..Len(ret.pattern_analysis.patterns) :
                RatioInUnit(ret.pattern_analysis.patterns[i].confidence)
          /\ (Usable(handles.text_classifier) /\ ~call.clf.raises) =>
                /\ RatioInUnit(ret.emotion_analysis.emotion_fraud_score)
                /\ \A i \in 1..Len(ret.emotion_analysis.fraud_indicators) :
                      InUnit(ret.emotion_analysis.fraud_indicators[i].score)

\* C1's case: an analysis whose signals add up to more than 1.0 (eleven
\* keyword signals at 0.1 each and three emotion signals) returned 1.0
C1_ClampReached ==
    /\ Returned("app.analyze_text_for_fraud")
    /\ Len(ret.patterns) > 13
    /\ ret.fraud_score = ONE

\* the tier ladder C2 states, on the lower-cased tier name
ClaimedTier(score) ==
    IF score >= Tenths(8) THEN "critical"
    ELSE IF score >= Tenths(6) THEN "high"
    ELSE IF score >= Tenths(3) THEN "medium"
    ELSE "low"

\* C2: every analysis entry point derives the tier from its final score by
\* the same ladder: >= 0.8 CRITICAL, >= 0.6 HIGH, >= 0.3 MEDIUM, else LOW.
C2_SameTierLadderEverywhere ==
    (\/ Returned("analyze_fraud_patterns")
     \/ Returned("app.analyze_text_for_fraud")
     \/ Returned("simple_app.analyze_text_for_fraud")
     \/ Returned("app_updated.analyze_text_for_fraud")) =>
        Lower(ret.risk_level) = ClaimedTier(ret.total_fraud_score)

C5_TotalRiskScoreClamped ==
    (Returned("analyze_document_for_fraud_questions") /\ qa_loaded) =>
        /\ ret.total_risk_score <= ONE
        /\ ret.total_risk_score =
              Round3(Min(TotalRiskScore(ret.fraud_analysis), ONE))

\* the QA capability failed for question i of the call, or answered nothing
QAFailed(i) == call.qas[i].raises \/ call.qas[i].answer = ""

\* C6: a question the QA capability fails on (or answers with nothing) has
\* an entry with risk_score 0 and an error indicator; all six questions are
\* reported in battery order and questions_analyzed counts them.
C6_FailedQuestionIsolated ==
    (Returned("analyze_document_for_fraud_questions") /\ qa_loaded) =>
        /\ Len(ret.fraud_analysis) = Len(fraud_questions)
        /\ ret.questions_analyzed = Len(ret.fraud_analysis)
        /\ \A i \in 1..Len(ret.fraud_analysis) :
              /\ ret.fraud_analysis[i].question = fraud_questions[i].question
              /\ QAFailed(i) => /\ ret.fraud_analysis[i].risk_score = 0
                                /\ ret.fraud_analysis[i].error # "None"

\* C7: analyze_document_for_fraud_questions returns the findings,
\* overall_risk and total_risk_score on every call, the QA model loaded or
\* not, and the /analyze-document-fraud handler that has a service builds
\* its response from them.
C7_ResultAlwaysComplete ==
    /\ Returned("analyze_document_for_fraud_questions") =>
          {"fraud_analysis", "overall_risk", "total_risk_score"}
              \subseteq DOMAIN ret
    /\ (Returned("analyze_document_fraud")
        /\ Usable(handles.document_qa_service)) => ret.status = 200

\* C8: the excerpt of _extract_relevant_context has at most max_length
\* characters, and so has the context answer_question hands to the pipeline.
C8_ExcerptWithinMaxLength ==
    /\ Returned("extract_relevant_context") =>
          Len(ret.excerpt) <= call.max_length
    /\ (Returned("answer_question") /\ qa_loaded) =>
          Len(ret.context) <= max_context_length

\* C9: sentences of equal overlap score are ranked in document order.
C9_TiesInDocumentOrder ==
    Returned("extract_relevant_context") =>
        \A i, j \in 1..Len(ret.ranked) :
            (i < j /\ ret.ranked[i].overlap = ret.ranked[j].overlap)
                => ret.ranked[i].idx < ret.ranked[j].idx

\* no sentence of the call's document shares a word with its question
NoOverlap == \A i \in 1..Len(ret.ranked) : ret.ranked[i].overlap = 0

\* the top-ranked sentence of the call fits into max_length
TopFits == Len(ret.ranked[1].sentence) <= call.max_length

\* C10 as stated: when every overlap score is 0 the result is exactly the
\* first max_length characters of the document.
C10_NoOverlapGivesPrefix ==
    (Returned("extract_relevant_context") /\ NoOverlap) =>
        ret.excerpt = Prefix(call.context, call.max_length)

\* C10 as amended: the result is the first max_length characters of the
\* document when the top-ranked sentence is longer than max_length, so that
\* nothing is appended; otherwise, overlap or none, it starts with the
\* top-ranked sentence (without its leading whitespace) and a ".".
C10_PrefixOnlyWhenNothingFits ==
    Returned("extract_relevant_context") =>
        /\ Len(ret.ranked) >= 1
        /\ ~TopFits => ret.excerpt = Prefix(call.context, call.max_length)
        /\ TopFits =>
              Prefix(ret.excerpt, Len(LStrip(ret.ranked[1].sentence \o ".")))
                  = LStrip(ret.ranked[1].sentence \o ".")

\* C10's case: no overlap, the top-ranked sentence does not fit, and the
\* non-empty prefix of the document came back
C10_FellBackToPrefix ==
    /\ Returned("extract_relevant_context")
    /\ NoOverlap
    /\ ~TopFits
    /\ ret.excerpt # ""
    /\ ret.excerpt = Prefix(call.context, call.max_length)

\* every candidate sentence of the call is longer than max_length
NoSentenceFits ==
    \A i \in 1..Len(ret.ranked) : Len(ret.ranked[i].sentence) > call.max_length

\* C11: when max_length is smaller than the length of every candidate
\* sentence, _extract_relevant_context returns document_text[:max_length].
C11_NoSentenceFitsGivesPrefix ==
    (Returned("extract_relevant_context") /\ NoSentenceFits) =>
        ret.excerpt = Prefix(call.context, call.max_length)

\* C11's case: a document of several sentences, each longer than a positive
\* max_length, came back as its first max_length characters
C11_SeveralSentencesNoneFits ==
    /\ Returned("extract_relevant_context")
    /\ NoSentenceFits
    /\ Len(ret.ranked) >= 2
    /\ call.max_length >= 1
    /\ Len(ret.excerpt) = call.max_length
    /\ ret.excerpt = Prefix(call.context, call.max_length)

\* seq without the elements that occurred earlier in it
FirstSeen(seq) ==
    Flatten([i \in 1..Len(seq) |->
        IF \E j \in 1..(i - 1) : seq[j] = seq[i] THEN <<>> ELSE <<seq[i]>>])

\* the (pattern id, description) keys of a list of signal records
SignalKeys(signals) ==
    [i \in 1..Len(signals) |-> <<signals[i].pattern, signals[i].description>>]

\* C13: the signal list of an analysis result holds no two signals with the
\* same (pattern id, description) pair, and the signals appear in the order in
\* which the detectors first produced them.
C13_SignalsDedupedInFirstSeenOrder ==
    /\ Returned("app.analyze_text_for_fraud") =>
          SignalKeys(ret.patterns) = FirstSeen(SignalKeys(ret.patterns))
    /\ Returned("app_updated.analyze_text_for_fraud") =>
          ret.patterns = FirstSeen(ret.produced_patterns)

\* the weights C14 states, in tenths
ClaimedWeight(label) ==
    CASE label = "anger"   -> 4
      [] label = "fear"    -> 6
      [] label = "sadness" -> 3
      [] OTHER             -> 0

\* C14's condition on one label of the classifier's response
ClaimedToCount(result) ==
    /\ result.label \in {"anger", "fear", "sadness"}
    /\ result.score > Tenths(3)

\* what the labels of a response add to the score according to C14
ClaimedContribution(results) ==
    SumSeq([i \in 1..Len(results) |->
               IF ClaimedToCount(results[i])
               THEN Times(results[i].score, ClaimedWeight(results[i].label), 10)
               ELSE 0])

\* the labels C14 says produce a signal, in the order of the response
ClaimedLabels(results) ==
    Flatten([i \in 1..Len(results) |->
               IF ClaimedToCount(results[i]) THEN <<results[i].label>> ELSE <<>>])

\* what the keyword categories of app_updated.py added to the score
CategoryPart(pattern_scores) ==
    SumSeq([i \in 1..Len(pattern_scores) |->
               IF pattern_scores[i].pattern = "emotional_manipulation" THEN 0
               ELSE (pattern_scores[i].confidence.num * Tenths(3))
                       \div pattern_scores[i].confidence.den])

\* the labels of the emotion signals in the returned patterns of app_updated.py
EmotionSignalLabels ==
    {l \in {"anger", "fear", "sadness", "joy"} :
        \E i \in 1..Len(ret.patterns) :
            ret.patterns[i] = "Suspicious emotional tone: " \o l}

\* C14 on emotion_fraud_detector.py: the fraud indicators are the labels among
\* anger, fear, sadness with confidence > 0.3, and the emotion score is the
\* sum of confidence x weight (0.4, 0.6, 0.3) over them, capped at 1.0.
C14_DetectorWeighsLabels ==
    (Returned("analyze_fraud_patterns") /\ emo_loaded /\ ~call.clf.raises) =>
        /\ [i \in 1..Len(ret.emotion_analysis.fraud_indicators) |->
               ret.emotion_analysis.fraud_indicators[i].emotion]
             = ClaimedLabels(call.clf.results)
        /\ ret.emotion_analysis.emotion_fraud_score
             = Round3(Min(ClaimedContribution(call.clf.results), ONE))

\* C14 on app_updated.py: a label gives an emotion signal iff it is anger, fear
\* or sadness with confidence > 0.3, and adds confidence x weight to the
\* score, once.
C14_UpdatedWeighsLabels ==
    (/\ Returned("app_updated.analyze_text_for_fraud")
     /\ Usable(handles.text_classifier)
     /\ ~call.clf.raises /\ ~call.clf2.raises
     /\ ret.total_fraud_score < ONE) =>
        /\ EmotionSignalLabels
             = {ClaimedLabels(call.clf.results)[i] :
                   i \in 1..Len(ClaimedLabels(call.clf.results))}
        /\ ret.total_fraud_score
             = ClaimedContribution(call.clf.results)
               + CategoryPart(ret.pattern_analysis.patterns)

\* C14: a classifier label produces a signal and contributes to the score iff
\* it is anger, fear or sadness with confidence strictly above 0.3, and then
\* contributes exactly confidence x weight (anger 0.4, fear 0.6, sadness 0.3),
\* once per analysis -- in the detector and in app_updated.py alike.
C14_LabelContributesWeightOnce ==
    /\ C14_DetectorWeighsLabels
    /\ C14_UpdatedWeighsLabels

\* the indices of the records of category c among the pattern scores returned
CategoryRecords(c) ==
    {i \in 1..Len(ret.pattern_analysis.patterns) :
        ret.pattern_analysis.patterns[i].pattern = category_names[c]}

\* the keywords of category c that occur in a lowered text
KeywordsIn(lowered, c) ==
    {k \in 1..Len(category_keywords[c]) :
        Contains(lowered, category_keywords[c][k])}

\* the keywords of every category that occur in a lowered text
KeywordsOfLowered(lowered) ==
    [c \in 1..Len(category_names) |-> KeywordsIn(lowered, c)]

\* the keywords that occur in each text the analysis is called on
KeywordsPresentOf == [t \in AnalysedTexts |-> KeywordsOfLowered(Lower(t))]

\* the keywords of category c that occur in the text of the call, whatever
\* the case of its letters
KeywordsPresent(c) ==
    IF call.text \in DOMAIN KeywordsPresentOf THEN KeywordsPresentOf[call.text][c]
    ELSE KeywordsIn(Lower(call.text), c)

\* what the emotion steps of app_updated.py added to the score: 0.2 x score
\* per fraud indicator and per emotional_manipulation record
EmotionPart ==
    (IF Usable(handles.text_classifier) /\ ~call.clf.raises
     THEN SumSeq([i \in 1..Len(ret.emotion_analysis.fraud_indicators) |->
                    Times(ret.emotion_analysis.fraud_indicators[i].score, 2, 10)])
     ELSE 0)
    + SumSeq([i \in 1..Len(ret.pattern_analysis.patterns) |->
                IF ret.pattern_analysis.patterns[i].pattern = "emotional_manipulation"
                THEN Times(ret.pattern_analysis.patterns[i].confidence.num, 2, 10)
                ELSE 0])

\* C15: for each keyword category the keyword detector emits exactly one
\* signal iff at least one keyword of the category occurs in the text
\* (case-insensitive substring match), with confidence matched / total, and
\* adds confidence x 0.3 to the score; every urgency keyword present gives
\* urgency the confidence 1.0.
C15_OneSignalPerMatchedCategory ==
    Returned("app_updated.analyze_text_for_fraud") =>
        /\ \A c \in 1..Len(category_names) :
              /\ Cardinality(CategoryRecords(c))
                   = (IF KeywordsPresent(c) = {} THEN 0 ELSE 1)
              /\ \A i \in CategoryRecords(c) :
                    ret.pattern_analysis.patterns[i].confidence
                      = [num |-> Cardinality(KeywordsPresent(c)),
                         den |-> Len(category_keywords[c])]
        /\ ret.total_fraud_score
             = Min(CategoryPart(ret.pattern_analysis.patterns) + EmotionPart, ONE)
        /\ (Cardinality(KeywordsPresent(1)) = Len(category_keywords[1])) =>
              \E i \in CategoryRecords(1) :
                  ret.pattern_analysis.patterns[i].confidence.num
                    = ret.pattern_analysis.patterns[i].confidence.den

\* C15's case: a text holding all six urgency keywords, one of them in
\* capitals, and no keyword of the amount category: urgency scored 6/6 and
\* amount gave no signal
C15_EveryUrgencyKeyword ==
    /\ Returned("app_updated.analyze_text_for_fraud")
    /\ Contains(call.text, "URGENT")
    /\ Cardinality(KeywordsPresent(1)) = 6
    /\ KeywordsPresent(4) = {}
    /\ \E i \in CategoryRecords(1) :
          ret.pattern_analysis.patterns[i].confidence = [num |-> 6, den |-> 6]
    /\ CategoryRecords(4) = {}
    /\ ret.total_fraud_score >= Tenths(3)

\* the scenario text of C16
UrgentWireText == Fragments[1]

\* the names of the keyword categories with a record in the result
CategoriesSignalled ==
    {ret.pattern_analysis.patterns[i].pattern :
        i \in 1..Len(ret.pattern_analysis.patterns)}

\* C16: for "URGENT: wire transfer $50,000 immediately, confidential!" the
\* keyword detector emits signals for urgency, payment method ("payment" in
\* the code), confidentiality and amount, and the risk level of the result
\* is HIGH or CRITICAL.
C16_UrgentWireIsHighRisk ==
    /\ (Returned("app_updated.analyze_text_for_fraud") /\ call.text = UrgentWireText) =>
          /\ {"urgency", "confidentiality", "amount"} \subseteq CategoriesSignalled
          /\ CategoriesSignalled \cap {"payment", "payment_method"} # {}
          /\ ret.risk_level \in {"HIGH", "CRITICAL"}
    /\ (Returned("analyze_fraud_patterns") /\ call.text = UrgentWireText) =>
          ret.risk_level \in {"high", "critical"}

\* one of the three analysis entry points C17 cites has returned
KeywordAnalysisReturned ==
    \/ Returned("analyze_fraud_patterns")
    \/ Returned("app.analyze_text_for_fraud")
    \/ Returned("simple_app.analyze_text_for_fraud")

\* a text contains none of the fraud keywords
HasNoFraudKeyword(text) == Matches(fraud_keywords, Lower(text)) = <<>>

\* no pattern detector has anything to report on a text
IsQuiet(text) ==
    /\ HasNoFraudKeyword(text)
    /\ Len(FindAmounts(text)) <= 5
    /\ CountEmails(text) <= 3
    /\ Len(Matches(urgency_words, Lower(text))) <= 2

\* what the detectors find in each text the analysis is called on
WithoutFraudKeyword == [t \in AnalysedTexts |-> HasNoFraudKeyword(t)]
Quiet == [t \in AnalysedTexts |-> IsQuiet(t)]

\* the text of the call contains none of the fraud keywords
NoFraudKeyword ==
    IF call.text \in DOMAIN WithoutFraudKeyword THEN WithoutFraudKeyword[call.text]
    ELSE HasNoFraudKeyword(call.text)

\* no pattern detector has anything to report on the text of the call
NoPatternFires ==
    IF call.text \in DOMAIN Quiet THEN Quiet[call.text]
    ELSE IsQuiet(call.text)

\* the confidences of anger, fear and sadness in the response add up to 1.0
\* at most, as the scores of one softmax do (vacuous when the classifier was
\* not called or raised)
SuspiciousConfidencesWithinOne ==
    SumSeq([i \in 1..Len(call.clf.results) |->
               IF call.clf.results[i].label \in {"anger", "fear", "sadness"}
               THEN call.clf.results[i].score ELSE 0]) <= ONE

\* C17 as stated: for a text with no fraud keyword the score is below 0.3 and
\* the risk level LOW, for every classifier response and without classifier.
C17_NoKeywordIsLowRisk ==
    (KeywordAnalysisReturned /\ NoFraudKeyword) =>
        /\ ret.fraud_score < Tenths(3)
        /\ ret.risk_level = "low"

\* C17, amended: for a text on which no pattern detector fires, the score is
\* below 0.3 and the risk level LOW whenever the confidences of anger, fear
\* and sadness add up to at most 1.0, and when the classifier is unavailable.
C17_QuietTextIsLowRisk ==
    (KeywordAnalysisReturned /\ NoPatternFires /\ SuspiciousConfidencesWithinOne) =>
        /\ ret.fraud_score < Tenths(3)
        /\ ret.risk_level = "low"

\* C17's case: the invoice text, the classifier certain of fear, and a
\* positive score that stayed in the LOW tier
C17_InvoiceWithFearStaysLow ==
    /\ Returned("analyze_fraud_patterns")
    /\ call.text = Fragments[2]
    /\ ~call.clf.raises
    /\ \E i \in 1..Len(call.clf.results) :
          call.clf.results[i] = [label |-> "fear", score |-> ONE]
    /\ SuspiciousConfidencesWithinOne
    /\ ret.fraud_score > Tenths(2)
    /\ ret.risk_level = "low"

\* an analysis entry point has returned for the second time on the inputs of
\* the first call
AnalysisRepeated ==
    /\ pc = "done"
    /\ pc' = "repeated"
    /\ call' = call

QualityReturned ==
    \/ Returned("extract_text_with_quality_enhancement")
    \/ Returned("process_document") /\ ret.status = 200

\* the quality data returned
QualityData ==
    IF call.op = "process_document" THEN ret.ocr_quality ELSE ret

\* the ladder C18 states, on a confidence score in tenths
ClaimedGrade(confidence_score) ==
    IF confidence_score >= 900 THEN "excellent"
    ELSE IF confidence_score >= 700 THEN "good"
    ELSE IF confidence_score >= 500 THEN "fair"
    ELSE "poor"

\* the note get_processing_notes attaches to a tier
TierNote(quality_level) ==
    CASE quality_level = "excellent" ->
             "High quality text extraction - ready for analysis"
      [] quality_level = "good" ->
             "Good text extraction - minor quality issues detected"
      [] quality_level = "fair" ->
             "Fair text extraction - some text may need manual review"
      [] OTHER ->
             "Poor text extraction - consider uploading a clearer image"

\* the extraction failed: an error, or a type that is not supported
ExtractionFailed == QualityData.file_type \in {"error", "unsupported"}

\* C18, the grade: a failed extraction has confidence 0 and the grade failed;
\* any other has the grade of the ladder at its confidence score.
C18_GradeFollowsConfidence ==
    QualityReturned =>
        IF ExtractionFailed
        THEN QualityData.confidence_score = 0 /\ QualityData.quality_level = "failed"
        ELSE QualityData.quality_level = ClaimedGrade(QualityData.confidence_score)

\* C18, the note: an extraction that did not fail carries the note of its tier.
C18_NoteOfSameTier ==
    (QualityReturned /\ ~ExtractionFailed) =>
        QualityData.processing_notes = TierNote(QualityData.quality_level)

\* C18: the extraction-quality grade is a pure function of the confidence
\* score (>= 90 excellent, >= 70 good, >= 50 fair, else poor) with the note of
\* the same tier attached; a failed extraction (error or unsupported type,
\* confidence 0) is graded failed regardless.
C18_GradeAndNoteFollowConfidence ==
    /\ C18_GradeFollowsConfidence
    /\ C18_NoteOfSameTier

\* process_document has answered a second upload of the text of the first
DocumentRepeated ==
    /\ pc = "done"
    /\ pc' = "repeated"
    /\ call.op = "process_document"

\* C19: for a fixed extracted text, the fraud_score and risk_level of
\* process_document do not depend on the extraction confidence, quality level
\* or processing notes: two runs that differ only in the OCR quality metadata
\* give the same score and tier.
C19_ScoreIgnoresQuality ==
    [][DocumentRepeated =>
          /\ ret'.fraud_score = ret.fraud_score
          /\ ret'.fraud_risk_level = ret.fraud_risk_level]_vars

\* C19's case: a text that scores was processed a second time from a poor
\* image
C19_SecondRunFromPoorImage ==
    /\ pc = "repeated"
    /\ call.op = "process_document"
    /\ ret.ocr_quality.quality_level = "poor"
    /\ ret.ocr_quality.confidence_score < 500
    /\ ret.fraud_score > 0
    /\ ret.fraud_risk_level # "LOW"

\* C20: once startup has completed, no step of any request handler changes
\* a global model handle or loads a model again: text_classifier,
\* question_answering_model, embedding_model, document_qa_service,
\* document_processor and fraud_detector, and the model_loaded flags of the
\* two services, stay what startup set, whatever requests follow each other.
C20_HandlersLeaveHandlesAlone ==
    [][pc # "boot" =>
          /\ handles' = handles
          /\ qa_loaded' = qa_loaded
          /\ emo_loaded' = emo_loaded]_vars

\* C20's case: startup fell back to the limited handles, a health check was
\* then served, and it reports what startup set
C20_HealthCheckedWhileLimited ==
    /\ pc = "done"
    /\ call.op = "health_check"
    /\ program = "app_updated"
    /\ handles = LimitedHandles
    /\ ret.services.text_classifier = "limited"
    /\ ret.services.document_qa_service = "limited"

\* the four tiers, in lower case
Tiers == {"low", "medium", "high", "critical"}

\* the calls whose result carries risk_level
RiskLevelOps ==
    {"analyze_fraud_patterns", "app.analyze_text_for_fraud",
     "simple_app.analyze_text_for_fraud", "app_updated.analyze_text_for_fraud"}

\* the calls whose result carries overall_risk
OverallRiskOps == {"analyze_document_for_fraud_questions", "analyze_document_fraud"}

\* C23: every result an analysis entry point returns, the result returned
\* when a model is unavailable included, carries a risk level that is one of
\* the four tiers LOW, MEDIUM, HIGH, CRITICAL (in either case of the letters).
C23_RiskLevelIsATier ==
    pc \in {"done", "repeated"} =>
       /\ (call.op \in RiskLevelOps => Lower(ret.risk_level) \in Tiers)
       /\ (call.op \in OverallRiskOps /\ "overall_risk" \in DOMAIN ret
              => Lower(ret.overall_risk) \in Tiers)
       /\ (call.op = "process_document" /\ ret.status = 200
              => Lower(ret.fraud_risk_level) \in Tiers)

\* C24: text extraction for an unsupported media type returns empty text
\* and a confidence of zero.
C24_UnsupportedGivesEmptyText ==
    /\ (Returned("extract_text_with_quality_enhancement")
           /\ call.content_type \notin allowed_types
        => ret.extracted_text = "" /\ ret.confidence_score = 0)
    /\ (Returned("extract_text_from_document")
           /\ call.content_type \notin allowed_types
        => ret.text = "")

\* C29: a request a handler rejects with a specific HTTP status reaches the
\* client with that status: process_document answers 400 for an unsupported
\* content type, ask_document and analyze_document_fraud answer 503 when the
\* document QA service is unavailable; none of them answers 500 instead.
C29_RejectionKeepsItsStatus ==
    /\ (Returned("process_document") /\ call.content_type \notin allowed_types
        => ret.status = 400)
    /\ (Returned("ask_document") /\ ~Usable(handles.document_qa_service)
        => ret.status = 503)
    /\ (Returned("analyze_document_fraud") /\ ~Usable(handles.document_qa_service)
        => ret.status = 503)

\* the values of the six global handles
HandleValues == {handles[h] : h \in DOMAIN handles}

FileOrDefault(k) ==
    IF call.file.exists /\ k \in DOMAIN call.file.server
    THEN call.file.server[k] ELSE DefaultServer[k]

SetOverFile(k) == IF call.env[k].set THEN call.env[k].value ELSE FileOrDefault(k)

GivenOverFile(k) == IF EnvGiven(call.env[k]) THEN call.env[k].value ELSE FileOrDefault(k)

DollarAmounts(text) ==
    Cardinality({i \in 1..(Len(text) - 1) :
                    Char(text, i) = "$" /\ Char(text, i + 1) \in Digits})

AtSigns(text) == Cardinality({i \in 1..Len(text) : Char(text, i) = "@"})

\* the places of the signals of a pattern in a list of signals
SignalsOf(patterns, pattern) ==
    {i \in 1..Len(patterns) : patterns[i].pattern = pattern}

\* what a signal of app.py and simple_app.py adds to the score
DensityWeight(signal) ==
    CASE signal.pattern = "excessive_amounts" -> Tenths(2)
      [] signal.pattern = "multiple_emails" -> Tenths(1)
      [] signal.pattern = "fraud_keyword" -> Tenths(1)
      [] signal.pattern = "urgency_indicators" -> Hundredths(15)
      [] OTHER -> Times(signal.confidence, 2, 10)

\* C26: in app.py and simple_app.py the amount check emits one
\* excessive_amounts signal of confidence 0.6 and adds 0.2 exactly when the
\* text holds more than 5 amounts, the email check emits one multiple_emails
\* signal of confidence 0.5 and adds 0.1 exactly when it holds more than 3
\* addresses, each whatever the other check and the keywords give.
C26_DensityChecksStrictAndIndependent ==
    (\/ Returned("app.analyze_text_for_fraud")
     \/ Returned("simple_app.analyze_text_for_fraud")) =>
       LET am == SignalsOf(ret.patterns, "excessive_amounts")
           ml == SignalsOf(ret.patterns, "multiple_emails")
       IN  /\ Cardinality(am) = (IF DollarAmounts(call.text) > 5 THEN 1 ELSE 0)
           /\ Cardinality(ml) = (IF AtSigns(call.text) > 3 THEN 1 ELSE 0)
           /\ \A i \in am : ret.patterns[i].confidence = Tenths(6)
           /\ \A i \in ml : ret.patterns[i].confidence = Tenths(5)
           /\ ret.total_fraud_score =
                 Min(ONE, SumSeq([i \in 1..Len(ret.patterns) |->
                                     DensityWeight(ret.patterns[i])]))

\* C26's case: a text with six amounts, four addresses and no keyword gives
\* both signals and 0.3
C26_BothDensitySignalsAlone ==
    /\ Returned("simple_app.analyze_text_for_fraud")
    /\ DollarAmounts(call.text) = 6
    /\ AtSigns(call.text) = 4
    /\ Len(ret.patterns) = 2
    /\ ret.total_fraud_score = Tenths(3)

\* the calls whose record holds the texts handed to the emotion classifier
ClassifierCallers ==
    {"analyze_fraud_patterns", "app.analyze_text_for_fraud",
     "app_updated.analyze_text_for_fraud"}

\* the first n characters of a text, the whole text when it is shorter
FirstChars(text, n) == IF Len(text) <= n THEN text ELSE SubSeq(text, 1, n)

\* C27: on every path that invokes the emotion classifier, the text passed
\* to it is the first 512 characters of the input (the whole input when it
\* is shorter); the classifier never receives more than 512 characters.
C27_ClassifierGetsFirst512 ==
    pc \in {"done", "repeated"} /\ call.op \in ClassifierCallers =>
       \A i \in 1..Len(call.clf_args) :
          /\ Len(call.clf_args[i]) <= 512
          /\ call.clf_args[i] = FirstChars(call.text, 512)

\* C28: the fraud_score a result of analyze_fraud_patterns, of app.py or of
\* simple_app.py reports (the score rounded to three decimals) agrees with
\* the risk_level it reports: no fraud_score >= 0.8 below critical, none
\* >= 0.6 below high, none >= 0.3 with the level low.
C28_ReportedScoreAgreesWithLevel ==
    pc \in {"done", "repeated"}
      /\ call.op \in {"analyze_fraud_patterns", "app.analyze_text_for_fraud",
                      "simple_app.analyze_text_for_fraud"} =>
       /\ (ret.fraud_score >= Tenths(8) => ret.risk_level = "critical")
       /\ (ret.fraud_score >= Tenths(6) => ret.risk_level \in {"high", "critical"})
       /\ (ret.fraud_score >= Tenths(3) => ret.risk_level # "low")

\* what the call of task t returns when it runs alone
ResultAlone(t) ==
    IF program = "app"
    THEN app_analyze_text_for_fraud(handles.text_classifier,
                                    frames[t].text, frames[t].clf)
    ELSE analyze_fraud_patterns(emo_loaded, frames[t].text, frames[t].clf)

\* C21: overlapping analyses do not interfere: however the steps of several
\* calls of analyze_text_for_fraud or analyze_fraud_patterns interleave,
\* every call returns the fraud_score, the risk_level and the signals the
\* same call returns when it runs alone.
C21_OverlappingCallsReturnAsAlone ==
    \A t \in Tasks :
       frames[t].pc = "returned" => frames[t].result = ResultAlone(t)

\* C21's case: the first call has returned a score while the second, on
\* another text and with another response of the classifier, is between two
\* of its detectors
C21_ReturnedWhileOtherInFlight ==
    /\ frames[1].pc = "returned"
    /\ frames[1].result.fraud_score > 0
    /\ frames[2].pc \in {"patterns", "combine", "keywords", "amounts", "emails"}
    /\ frames[2].text # frames[1].text
    /\ frames[2].clf # frames[1].clf

\* C22: a call has its final fraud_score only after every detector of the
\* program has reported, with findings or as a degraded empty result; no
\* result is made of the reports of some of the detectors only.
C22_ScoreAfterEveryDetector ==
    \A t \in Tasks :
       frames[t].pc = "returned" => frames[FrameOf(t)].reported = Detectors

\* C22's case: a call has returned although its classifier raised: the
\* emotion detector reported a degraded result and the patterns made the score
C22_ReturnedWithDegradedDetector ==
    /\ program = "emotion_fraud_detector"
    /\ frames[1].pc = "returned"
    /\ frames[1].clf.raises
    /\ frames[1].emotion_analysis.error # "None"
    /\ frames[1].reported = {"emotion", "patterns"}
    /\ frames[1].result.fraud_score > 0

=============================================================================
